---------------------------- MODULE Spec2Model ----------------------------
(***************************************************************************)
(* A model of the COINjecture Network B node: the per-block state          *)
(* transition engine (node/src/service.rs apply_block_transactions and     *)
(* apply_single_transaction over the account, time-lock, escrow and        *)
(* channel stores), the block validator (node/src/validator.rs), the chain *)
(* store (node/src/chain.rs) and the two tasks that import and mine        *)
(* blocks (node/src/service.rs handle_network_event and mining_loop).      *)
(*                                                                         *)
(* Six specifications share the variables:                                 *)
(*   Spec      the state-transition engine applying blocks one             *)
(*             transaction at a time, with store-write failures and        *)
(*             aborts as inputs;                                           *)
(*   SpecNode  the node: the network event handler and the mining loop     *)
(*             interleaved at their await points over the chain store;     *)
(*   SpecCore  one call of a function of the consensus core library        *)
(*             (coinjecture-core: verifier, commit-reveal, Merkle tree)    *)
(*             or of validate_timestamp, AccountState::transfer,           *)
(*             TransactionPool::add or BlockValidator::apply_block, on     *)
(*             arguments drawn from bounded sets;                          *)
(*   SpecMarket the problem marketplace of the mempool crate under any     *)
(*             sequence of its calls;                                      *)
(*   SpecMiner the mining loop alone, and SpecSync the event task with     *)
(*             status updates and answered block requests, both with the   *)
(*             fairness of the runtime.                                    *)
(***************************************************************************)
EXTENDS Integers, Sequences, FiniteSets, TLC

(***************************************************************************)
(* Bounds of the model.                                                    *)
(***************************************************************************)
\* Blocks applied by the engine in one behaviour of Spec.
MaxBlocks == 2
\* Transactions per block in Spec (the code allows any number).
MaxTxPerBlock == 2
\* Wall-clock instants 0..MaxTime.
MaxTime == 1

(***************************************************************************)
(* Addresses and keys.  An address is the SHA-256 digest of a public key   *)
(* (Address::from_pubkey); the digest is modelled as an injective tagged   *)
(* value.  A key pair is named by its public key.                          *)
(***************************************************************************)
Keys == {"kA", "kB", "kM"}

FromPubkey(pk) == <<"addr", pk>>

AddrA == FromPubkey("kA")
AddrB == FromPubkey("kB")
AddrM == FromPubkey("kM")

Addresses == {FromPubkey(k) : k \in Keys}

\* SHA-256 (Hash::new): collision-free, so an injective tagged value.
HashNew(data) == <<"sha256", data>>

HashZero == <<"sha256", [zero |-> TRUE]>>

(***************************************************************************)
(* Ed25519 (core/src/crypto.rs).  A signature records the key that made it *)
(* and the message it was made over; it verifies under a public key only   *)
(* if both match.                                                          *)
(***************************************************************************)
KeyPairSign(key, message) == [signer |-> key, message |-> message]

PublicKeyVerify(public_key, message, signature) ==
    /\ signature.signer = public_key
    /\ signature.message = message


(***************************************************************************)
(* Transactions (core/src/transaction.rs).  Each signed transaction        *)
(* carries the signer's public key and a signature over its signing        *)
(* message.                                                                *)
(***************************************************************************)
NoAddress == <<"none">>

\* A signing message is the concatenation of the listed fields; it is
\* modelled as the record of those fields.
TransferSigningMessage(tx) ==
    [from |-> tx.from, to |-> tx.to, amount |-> tx.amount, fee |-> tx.fee,
     nonce |-> tx.nonce, public_key |-> tx.public_key]

TimeLockSigningMessage(tx) ==
    [from |-> tx.from, recipient |-> tx.recipient, amount |-> tx.amount,
     unlock_time |-> tx.unlock_time, fee |-> tx.fee, nonce |-> tx.nonce,
     public_key |-> tx.public_key]

EscrowSigningMessage(tx) ==
    IF tx.escrow_type.kind = "Create"
    THEN [escrow_id |-> tx.escrow_id, from |-> tx.from, fee |-> tx.fee,
          nonce |-> tx.nonce, public_key |-> tx.public_key,
          recipient |-> tx.escrow_type.recipient,
          amount |-> tx.escrow_type.amount,
          timeout |-> tx.escrow_type.timeout]
    ELSE [escrow_id |-> tx.escrow_id, from |-> tx.from, fee |-> tx.fee,
          nonce |-> tx.nonce, public_key |-> tx.public_key]

ChannelSigningMessage(tx) ==
    CASE tx.channel_type.kind = "Open" ->
            [channel_id |-> tx.channel_id, from |-> tx.from, fee |-> tx.fee,
             nonce |-> tx.nonce, public_key |-> tx.public_key,
             deposit_a |-> tx.channel_type.deposit_a,
             deposit_b |-> tx.channel_type.deposit_b]
      [] tx.channel_type.kind = "CooperativeClose" ->
            [channel_id |-> tx.channel_id, from |-> tx.from, fee |-> tx.fee,
             nonce |-> tx.nonce, public_key |-> tx.public_key,
             final_balance_a |-> tx.channel_type.final_balance_a,
             final_balance_b |-> tx.channel_type.final_balance_b]
      [] OTHER ->
            [channel_id |-> tx.channel_id, from |-> tx.from, fee |-> tx.fee,
             nonce |-> tx.nonce, public_key |-> tx.public_key]

SigningMessage(tx) ==
    CASE tx.type = "Transfer" -> TransferSigningMessage(tx)
      [] tx.type = "TimeLock" -> TimeLockSigningMessage(tx)
      [] tx.type = "Escrow"   -> EscrowSigningMessage(tx)
      [] tx.type = "Channel"  -> ChannelSigningMessage(tx)

\* A transaction record signed with `keypair`: the public key is set, then
\* the signature is made over the signing message.
Signed(unsigned, keypair) ==
    LET withKey == [unsigned EXCEPT !.public_key = keypair]
    IN  [withKey EXCEPT
            !.signature = KeyPairSign(keypair, SigningMessage(withKey))]

Unsigned == KeyPairSign("none", [from |-> NoAddress])

NewTransfer(from, to, amount, fee, nonce, keypair) ==
    Signed([type |-> "Transfer", from |-> from, to |-> to, amount |-> amount,
            fee |-> fee, nonce |-> nonce, public_key |-> "none",
            signature |-> Unsigned], keypair)

NewTimeLock(from, recipient, amount, unlock_time, fee, nonce, keypair) ==
    Signed([type |-> "TimeLock", from |-> from, recipient |-> recipient,
            amount |-> amount, unlock_time |-> unlock_time, fee |-> fee,
            nonce |-> nonce, public_key |-> "none", signature |-> Unsigned],
           keypair)

\* additional_signatures is modelled by its length: the code only tests
\* whether the list is empty and verifies none of its entries.
NewEscrow(escrow_type, escrow_id, from, fee, nonce, additional, keypair) ==
    Signed([type |-> "Escrow", escrow_type |-> escrow_type,
            escrow_id |-> escrow_id, from |-> from, fee |-> fee,
            nonce |-> nonce, public_key |-> "none", signature |-> Unsigned,
            additional_signatures |-> additional], keypair)

NewChannel(channel_type, channel_id, from, fee, nonce, keypair) ==
    Signed([type |-> "Channel", channel_type |-> channel_type,
            channel_id |-> channel_id, from |-> from, fee |-> fee,
            nonce |-> nonce, public_key |-> "none", signature |-> Unsigned,
            additional_signatures |-> 0], keypair)

EscrowCreate(recipient, arbiter, amount, timeout) ==
    [kind |-> "Create", recipient |-> recipient, arbiter |-> arbiter,
     amount |-> amount, timeout |-> timeout]

EscrowRelease == [kind |-> "Release"]

EscrowRefund == [kind |-> "Refund"]

ChannelOpen(participant_a, participant_b, deposit_a, deposit_b, timeout) ==
    [kind |-> "Open", participant_a |-> participant_a,
     participant_b |-> participant_b, deposit_a |-> deposit_a,
     deposit_b |-> deposit_b, timeout |-> timeout]

ChannelUpdate(sequence, balance_a, balance_b) ==
    [kind |-> "Update", sequence |-> sequence, balance_a |-> balance_a,
     balance_b |-> balance_b]

ChannelCooperativeClose(final_balance_a, final_balance_b) ==
    [kind |-> "CooperativeClose", final_balance_a |-> final_balance_a,
     final_balance_b |-> final_balance_b]

ChannelUnilateralClose(sequence, balance_a, balance_b) ==
    [kind |-> "UnilateralClose", sequence |-> sequence,
     balance_a |-> balance_a, balance_b |-> balance_b]

\* Transaction::verify_signature: the signature is checked under the public
\* key the transaction itself carries.
VerifySignature(tx) ==
    /\ PublicKeyVerify(tx.public_key, SigningMessage(tx), tx.signature)
    /\ (tx.type = "Escrow" /\ tx.escrow_type.kind \in {"Release", "Refund"})
          => tx.additional_signatures > 0

\* Transaction::is_valid: the signature check plus the binding of the sender
\* address to the public key (and the per-type basic checks).
IsValid(tx, now) ==
    /\ VerifySignature(tx)
    /\ tx.from = FromPubkey(tx.public_key)
    /\ tx.type \in {"Transfer", "TimeLock"} => tx.amount # 0
    /\ tx.type = "TimeLock" => tx.unlock_time > now

\* Transaction::hash: SHA-256 of the serialized transaction.
TxHash(tx) == HashNew(tx)

TxFee(tx) == tx.fee

(***************************************************************************)
(* The state stores (state/src/accounts.rs, timelocks.rs, escrows.rs,      *)
(* channels.rs).  One value L holds the four tables of the shared          *)
(* database: balances and nonces by address, time-locks by transaction     *)
(* hash, escrows by escrow id, channels by channel id.  Every set_* below  *)
(* is one committed write transaction of the store.                        *)
(***************************************************************************)
EscrowIds == {"e1"}

ChannelIds == {"c1"}

NoEscrow == [status |-> "Absent"]

NoChannel == [status |-> "Absent"]

GetBalance(L, address) == L.balances[address]

SetBalance(L, address, balance) == [L EXCEPT !.balances[address] = balance]

GetNonce(L, address) == L.nonces[address]

SetNonce(L, address, nonce) == [L EXCEPT !.nonces[address] = nonce]

IncrementNonce(L, address) == SetNonce(L, address, GetNonce(L, address) + 1)

\* add_timelock: insert keyed by the creating transaction's hash (an
\* existing entry under that key is overwritten).
AddTimelock(L, timelock) ==
    [L EXCEPT !.timelocks =
        {t \in @ : t.tx_hash # timelock.tx_hash} \cup {timelock}]

GetEscrow(L, escrow_id) == L.escrows[escrow_id]

EscrowExists(L, escrow_id) == GetEscrow(L, escrow_id).status # "Absent"

\* create_escrow after its existence check.
InsertEscrow(L, escrow) == [L EXCEPT !.escrows[escrow.escrow_id] = escrow]

\* update_escrow_status (the escrow exists at every call site): the status
\* and the resolution height are overwritten, whatever the current status.
UpdateEscrowStatus(L, escrow_id, status, resolved_height) ==
    [L EXCEPT !.escrows[escrow_id].status = status,
              !.escrows[escrow_id].resolved_at_height = resolved_height]

\* A can_release that leaves out the comparison of the releaser with the
\* arbiter and the recipient; ReleaseEffect does not hold of it.
CanReleaseAnyRequester(L, escrow_id, releaser) ==
    /\ EscrowExists(L, escrow_id)
    /\ GetEscrow(L, escrow_id).status = "Active"

CanRelease(L, escrow_id, releaser) ==
    LET escrow == GetEscrow(L, escrow_id)
    IN  /\ EscrowExists(L, escrow_id)
        /\ escrow.status = "Active"
        /\ \/ releaser = escrow.arbiter
           \/ releaser = escrow.recipient

\* A can_refund that does not look at the status of the escrow.
CanRefundAnyStatus(L, escrow_id, refunder, now) ==
    LET escrow == GetEscrow(L, escrow_id)
    IN  /\ EscrowExists(L, escrow_id)
        /\ \/ refunder = escrow.arbiter
           \/ refunder = escrow.sender /\ escrow.timeout <= now

\* A can_refund that lets the sender refund before the timeout;
\* RefundEffect does not hold of it.
CanRefundBeforeTimeout(L, escrow_id, refunder, now) ==
    /\ EscrowExists(L, escrow_id)
    /\ GetEscrow(L, escrow_id).status = "Active"
    /\ refunder \in {GetEscrow(L, escrow_id).arbiter,
                     GetEscrow(L, escrow_id).sender}

CanRefund(L, escrow_id, refunder, now) ==
    LET escrow == GetEscrow(L, escrow_id)
    IN  /\ EscrowExists(L, escrow_id)
        /\ escrow.status = "Active"
        /\ \/ refunder = escrow.arbiter
           \/ refunder = escrow.sender /\ escrow.timeout <= now

GetChannel(L, channel_id) == L.channels[channel_id]

ChannelExists(L, channel_id) == GetChannel(L, channel_id).status # "Absent"

SaveChannel(L, channel) == [L EXCEPT !.channels[channel.channel_id] = channel]

Capacity(channel) == channel.deposit_a + channel.deposit_b

IsDisputeExpired(channel, now) ==
    /\ channel.dispute_started_at >= 0
    /\ now >= channel.dispute_started_at + channel.dispute_timeout

\* The ChannelState operations return [ok, L]: Err leaves the store as it
\* was, Ok holds the store after save_channel.
\* An update_channel_state that leaves out the comparison of the sequence
\* numbers; UpdateEffect does not hold of it.
UpdateChannelStateAnySequence(L, channel_id, sequence, balance_a, balance_b) ==
    LET channel == GetChannel(L, channel_id)
    IN  IF \/ ~ChannelExists(L, channel_id)
           \/ channel.status # "Open"
           \/ balance_a + balance_b # Capacity(channel)
        THEN [ok |-> FALSE, L |-> L]
        ELSE [ok |-> TRUE,
              L |-> SaveChannel(L, [channel EXCEPT !.sequence = sequence,
                                                   !.balance_a = balance_a,
                                                   !.balance_b = balance_b])]

UpdateChannelState(L, channel_id, sequence, balance_a, balance_b) ==
    LET channel == GetChannel(L, channel_id)
    IN  IF \/ ~ChannelExists(L, channel_id)
           \/ channel.status # "Open"
           \/ sequence <= channel.sequence
           \/ balance_a + balance_b # Capacity(channel)
        THEN [ok |-> FALSE, L |-> L]
        ELSE [ok |-> TRUE,
              L |-> SaveChannel(L, [channel EXCEPT !.sequence = sequence,
                                                   !.balance_a = balance_a,
                                                   !.balance_b = balance_b])]

CloseCooperative(L, channel_id, final_balance_a, final_balance_b, block_height) ==
    LET channel == GetChannel(L, channel_id)
    IN  IF \/ ~ChannelExists(L, channel_id)
           \/ channel.status # "Open"
           \/ final_balance_a + final_balance_b # Capacity(channel)
        THEN [ok |-> FALSE, L |-> L]
        ELSE [ok |-> TRUE,
              L |-> SaveChannel(L, [channel EXCEPT
                        !.status = "ClosedCooperative",
                        !.balance_a = final_balance_a,
                        !.balance_b = final_balance_b,
                        !.closed_at_height = block_height])]

StartDispute(L, channel_id, sequence, balance_a, balance_b, now) ==
    LET channel == GetChannel(L, channel_id)
    IN  IF \/ ~ChannelExists(L, channel_id)
           \/ channel.status # "Open"
           \/ balance_a + balance_b # Capacity(channel)
        THEN [ok |-> FALSE, L |-> L]
        ELSE [ok |-> TRUE,
              L |-> SaveChannel(L, [channel EXCEPT
                        !.status = "InDispute",
                        !.sequence = sequence,
                        !.balance_a = balance_a,
                        !.balance_b = balance_b,
                        !.dispute_started_at = now])]

FinalizeDispute(L, channel_id, block_height, now) ==
    LET channel == GetChannel(L, channel_id)
    IN  IF \/ ~ChannelExists(L, channel_id)
           \/ channel.status # "InDispute"
           \/ ~IsDisputeExpired(channel, now)
        THEN [ok |-> FALSE, L |-> L]
        ELSE [ok |-> TRUE,
              L |-> SaveChannel(L, [channel EXCEPT
                        !.status = "ClosedDispute",
                        !.closed_at_height = block_height])]

(***************************************************************************)
(* apply_single_transaction (node/src/service.rs).  The function is        *)
(* modelled by its trace: the store after each committed write, in order,  *)
(* and the result it returns when every write succeeds.  Optional heights  *)
(* and instants use -1 for None.                                           *)
(***************************************************************************)
None == -1

Trace(writes, ok) == [writes |-> writes, ok |-> ok]

ApplyTransfer(L, tx) ==
    LET sender_balance == GetBalance(L, tx.from)
        L1 == SetBalance(L, tx.from, sender_balance - tx.amount - tx.fee)
        L2 == SetNonce(L1, tx.from, tx.nonce + 1)
        L3 == SetBalance(L2, tx.to, GetBalance(L2, tx.to) + tx.amount)
    IN  IF sender_balance < tx.amount + tx.fee
        THEN Trace(<<>>, FALSE)
        ELSE Trace(<<L1, L2, L3>>, TRUE)

ApplyTimeLock(L, tx, block_height) ==
    LET sender_balance == GetBalance(L, tx.from)
        L1 == SetBalance(L, tx.from, sender_balance - tx.amount - tx.fee)
        L2 == SetNonce(L1, tx.from, tx.nonce + 1)
        L3 == AddTimelock(L2, [tx_hash |-> TxHash(tx), from |-> tx.from,
                               recipient |-> tx.recipient,
                               amount |-> tx.amount,
                               unlock_time |-> tx.unlock_time,
                               created_at_height |-> block_height])
    IN  IF sender_balance < tx.amount + tx.fee
        THEN Trace(<<>>, FALSE)
        ELSE Trace(<<L1, L2, L3>>, TRUE)

ApplyEscrowCreate(L, tx, block_height) ==
    LET create == tx.escrow_type
        sender_balance == GetBalance(L, tx.from)
        L1 == SetBalance(L, tx.from, sender_balance - create.amount - tx.fee)
        L2 == SetNonce(L1, tx.from, tx.nonce + 1)
        escrow == [escrow_id |-> tx.escrow_id, sender |-> tx.from,
                   recipient |-> create.recipient, arbiter |-> create.arbiter,
                   amount |-> create.amount, timeout |-> create.timeout,
                   status |-> "Active", created_at_height |-> block_height,
                   resolved_at_height |-> None]
    IN  IF sender_balance < create.amount + tx.fee
        THEN Trace(<<>>, FALSE)
        ELSE IF EscrowExists(L2, tx.escrow_id)
        THEN Trace(<<L1, L2>>, FALSE)
        ELSE Trace(<<L1, L2, InsertEscrow(L2, escrow)>>, TRUE)

ApplyEscrowRelease(L, tx, block_height) ==
    LET escrow == GetEscrow(L, tx.escrow_id)
        L1 == SetBalance(L, escrow.recipient,
                         GetBalance(L, escrow.recipient) + escrow.amount)
        L2 == UpdateEscrowStatus(L1, tx.escrow_id, "Released", block_height)
    IN  IF ~EscrowExists(L, tx.escrow_id)
        THEN Trace(<<>>, FALSE)
        ELSE IF ~CanRelease(L, tx.escrow_id, tx.from)
        THEN Trace(<<>>, FALSE)
        ELSE Trace(<<L1, L2>>, TRUE)

ApplyEscrowRefund(L, tx, block_height, now) ==
    LET escrow == GetEscrow(L, tx.escrow_id)
        L1 == SetBalance(L, escrow.sender,
                         GetBalance(L, escrow.sender) + escrow.amount)
        L2 == UpdateEscrowStatus(L1, tx.escrow_id, "Refunded", block_height)
    IN  IF ~EscrowExists(L, tx.escrow_id)
        THEN Trace(<<>>, FALSE)
        ELSE IF ~CanRefund(L, tx.escrow_id, tx.from, now)
        THEN Trace(<<>>, FALSE)
        ELSE Trace(<<L1, L2>>, TRUE)

ApplyChannelOpen(L, tx, block_height) ==
    LET open == tx.channel_type
        initiator_balance == GetBalance(L, tx.from)
        initiator_deposit == IF tx.from = open.participant_a
                             THEN open.deposit_a ELSE open.deposit_b
        L1 == SetBalance(L, tx.from,
                         initiator_balance - initiator_deposit - tx.fee)
        L2 == SetNonce(L1, tx.from, tx.nonce + 1)
        channel == [channel_id |-> tx.channel_id,
                    participant_a |-> open.participant_a,
                    participant_b |-> open.participant_b,
                    deposit_a |-> open.deposit_a,
                    deposit_b |-> open.deposit_b,
                    balance_a |-> open.deposit_a,
                    balance_b |-> open.deposit_b,
                    sequence |-> 0, dispute_timeout |-> open.timeout,
                    status |-> "Open", opened_at_height |-> block_height,
                    closed_at_height |-> None, dispute_started_at |-> None]
    IN  IF initiator_balance < initiator_deposit + tx.fee
        THEN Trace(<<>>, FALSE)
        ELSE IF ChannelExists(L2, tx.channel_id)
        THEN Trace(<<L1, L2>>, FALSE)
        ELSE Trace(<<L1, L2, SaveChannel(L2, channel)>>, TRUE)

ApplyChannelUpdate(L, tx) ==
    LET r == UpdateChannelState(L, tx.channel_id, tx.channel_type.sequence,
                                tx.channel_type.balance_a,
                                tx.channel_type.balance_b)
    IN  IF r.ok THEN Trace(<<r.L>>, TRUE) ELSE Trace(<<>>, FALSE)

ApplyChannelCooperativeClose(L, tx, block_height) ==
    LET close == tx.channel_type
        channel == GetChannel(L, tx.channel_id)
        L1 == SetBalance(L, channel.participant_a,
                  GetBalance(L, channel.participant_a) + close.final_balance_a)
        L2 == SetBalance(L1, channel.participant_b,
                  GetBalance(L1, channel.participant_b) + close.final_balance_b)
        r  == CloseCooperative(L2, tx.channel_id, close.final_balance_a,
                               close.final_balance_b, block_height)
    IN  IF ~ChannelExists(L, tx.channel_id)
        THEN Trace(<<>>, FALSE)
        ELSE IF r.ok THEN Trace(<<L1, L2, r.L>>, TRUE)
        ELSE Trace(<<L1, L2>>, FALSE)

ApplyChannelUnilateralClose(L, tx, now) ==
    LET r == StartDispute(L, tx.channel_id, tx.channel_type.sequence,
                          tx.channel_type.balance_a,
                          tx.channel_type.balance_b, now)
    IN  IF r.ok THEN Trace(<<r.L>>, TRUE) ELSE Trace(<<>>, FALSE)

ApplySingleTransactionTrace(L, tx, block_height, now) ==
    CASE tx.type = "Transfer" -> ApplyTransfer(L, tx)
      [] tx.type = "TimeLock" -> ApplyTimeLock(L, tx, block_height)
      [] tx.type = "Escrow" /\ tx.escrow_type.kind = "Create" ->
            ApplyEscrowCreate(L, tx, block_height)
      [] tx.type = "Escrow" /\ tx.escrow_type.kind = "Release" ->
            ApplyEscrowRelease(L, tx, block_height)
      [] tx.type = "Escrow" /\ tx.escrow_type.kind = "Refund" ->
            ApplyEscrowRefund(L, tx, block_height, now)
      [] tx.type = "Channel" /\ tx.channel_type.kind = "Open" ->
            ApplyChannelOpen(L, tx, block_height)
      [] tx.type = "Channel" /\ tx.channel_type.kind = "Update" ->
            ApplyChannelUpdate(L, tx)
      [] tx.type = "Channel" /\ tx.channel_type.kind = "CooperativeClose" ->
            ApplyChannelCooperativeClose(L, tx, block_height)
      [] tx.type = "Channel" /\ tx.channel_type.kind = "UnilateralClose" ->
            ApplyChannelUnilateralClose(L, tx, now)

\* The store after the first n writes of a trace.
After(L, writes, n) == IF n = 0 THEN L ELSE writes[n]

\* apply_single_transaction when the store write numbered fail_at fails
\* (0: none fails).  A failed write is not committed and makes the function
\* return Err through `?`; the writes before it stay committed.
ApplySingleTransaction(L, tx, block_height, now, fail_at) ==
    LET tr == ApplySingleTransactionTrace(L, tx, block_height, now)
    IN  IF fail_at >= 1 /\ fail_at <= Len(tr.writes)
        THEN [L |-> After(L, tr.writes, fail_at - 1), ok |-> FALSE]
        ELSE [L |-> After(L, tr.writes, Len(tr.writes)), ok |-> tr.ok]

\* The number of store writes the transaction makes on this store.
WriteCount(L, tx, block_height, now) ==
    Len(ApplySingleTransactionTrace(L, tx, block_height, now).writes)

(***************************************************************************)
(* Inputs of the engine: the transactions a block may carry.               *)
(***************************************************************************)
\* Scaled amounts: the genesis supply, the coinbase reward the reward
\* policy grants, the amount and the fee of the transactions.
InitialSupply == 6

BlockReward == 2

Amount == 2

Fee == 1

KeyOf(address) == address[2]

Senders == {AddrA, AddrB}

Nonces == {0, 1}

TransferTxs ==
    {NewTransfer(f, t, Amount, Fee, n, KeyOf(f)) :
        f \in Senders, t \in {AddrA, AddrB}, n \in Nonces}

TimeLockTxs ==
    {NewTimeLock(AddrA, AddrB, Amount, MaxTime, Fee, n, "kA") : n \in Nonces}

EscrowTxs ==
    {NewEscrow(EscrowCreate(AddrB, AddrM, Amount, 1), "e1", AddrA, Fee, n, 0, "kA") :
        n \in Nonces}
    \cup {NewEscrow(EscrowCreate(AddrA, NoAddress, Amount, 0), "e1", AddrB, Fee, 0, 0, "kB")}
    \cup {NewEscrow(k, "e1", f, Fee, 0, 1, KeyOf(f)) :
            k \in {EscrowRelease, EscrowRefund}, f \in Addresses}

ChannelTxs ==
    {NewChannel(ChannelOpen(AddrA, AddrB, 2, 1, 1), "c1", f, Fee, 0, KeyOf(f)) :
        f \in Senders}
    \cup {NewChannel(ChannelUpdate(q, a, 3 - a), "c1", AddrA, Fee, 0, "kA") :
            q \in {1, 2}, a \in {1}}
    \cup {NewChannel(ChannelUpdate(1, 2, 2), "c1", AddrA, Fee, 0, "kA")}
    \cup {NewChannel(ChannelCooperativeClose(a, b), "c1", f, Fee, 0, KeyOf(f)) :
            a \in {1, 2}, b \in {2}, f \in {AddrA, AddrM}}
    \cup {NewChannel(ChannelUnilateralClose(q, 3, 0), "c1", f, Fee, 0, KeyOf(f)) :
            q \in {0, 1}, f \in {AddrB, AddrM}}

EngineTxs == TransferTxs \cup TimeLockTxs \cup EscrowTxs \cup ChannelTxs

Miners == {AddrM}

\* Store writes of one transaction: at most three.
MaxWrites == 3

(***************************************************************************)
(* Blocks (core/src/block.rs) and the miner that builds them               *)
(* (consensus/src/miner.rs).                                               *)
(***************************************************************************)
BlockHash(block) == HashNew(block.header)

\* MerkleTree::calculate_root from the second level on: the hashes of a
\* level are combined two by two; a hash left alone is hashed by itself.
RECURSIVE NextLevel(_)
NextLevel(level) ==
    IF Len(level) = 0 THEN <<>>
    ELSE IF Len(level) = 1
         THEN <<HashNew([bytes |-> <<level[1]>>])>>
         ELSE <<HashNew([bytes |-> <<level[1], level[2]>>])>>
              \o NextLevel(SubSeq(level, 3, Len(level)))

RECURSIVE CalculateRoot(_)
CalculateRoot(leaves) ==
    IF Len(leaves) = 0 THEN HashZero
    ELSE IF Len(leaves) = 1 THEN leaves[1]
         ELSE CalculateRoot(NextLevel(leaves))

\* MerkleTree::new(data).root(): every datum is hashed into a leaf.
MerkleTreeRoot(data) ==
    CalculateRoot([i \in 1..Len(data) |-> HashNew(data[i])])

\* Miner::merkle_root: the leaves are the serialized transactions.
MinerMerkleRoot(transactions) ==
    IF Len(transactions) = 0 THEN HashZero ELSE MerkleTreeRoot(transactions)

\* The root Block::verify computes: the leaves are the transaction hashes.
VerifyMerkleRoot(transactions) ==
    MerkleTreeRoot([i \in 1..Len(transactions) |->
                        [bytes |-> <<TxHash(transactions[i])>>]])

\* Miner::generate_problem and solve_problem: one problem per height here.
GenerateProblem(height) == [problem_id |-> height]

SolveProblem(problem) == [solves |-> problem]

\* Solution::verify.
SolutionVerify(solution, problem) == solution.solves = problem

\* The epoch salt of the miner and of the validator: the hash of the height.
EpochSalt(height) == HashNew([height |-> height])

\* Commitment::create and Commitment::verify.
CommitmentCreate(problem, solution, epoch_salt) ==
    [hash |-> HashNew([problem |-> problem, solution |-> solution,
                       epoch_salt |-> epoch_salt]),
     problem_hash |-> HashNew(problem)]

CommitmentVerify(commitment, problem, solution, epoch_salt) ==
    commitment = CommitmentCreate(problem, solution, epoch_salt)

\* Work scores are whole numbers here; the miner's solutions score 1.
WorkScore == 1

\* RewardCalculator::calculate_reward.
CalculateReward(work_score) == BlockReward * work_score

\* mine_header leaves in the header a nonce whose header hash has the
\* leading zeros; such a nonce is written 1, any other nonce 0.
MeetsDifficulty(header) == header.nonce = 1

CoinbaseNew(to, reward, height) ==
    [to |-> to, reward |-> reward, height |-> height]

\* Miner::mine_block run by a miner with address miner_address at time now.
MineBlock(prev_hash, height, transactions, miner_address, now) ==
    LET problem == GenerateProblem(height)
        solution == SolveProblem(problem)
        commitment == CommitmentCreate(problem, solution,
                                       EpochSalt(height))
        header == [version |-> 1, height |-> height, prev_hash |-> prev_hash,
                   timestamp |-> now,
                   transactions_root |-> MinerMerkleRoot(transactions),
                   solutions_root |-> HashNew(solution),
                   commitment |-> commitment, work_score |-> WorkScore,
                   miner |-> miner_address, nonce |-> 1]
    IN  [header |-> header,
         coinbase |-> CoinbaseNew(miner_address, CalculateReward(WorkScore),
                                  height),
         transactions |-> transactions,
         solution_reveal |-> [problem |-> problem, solution |-> solution,
                              commitment |-> commitment]]

\* create_genesis_block for a GenesisConfig whose genesis_address is AddrA.
\* Times are counted from the genesis timestamp.
GenesisBlock ==
    LET problem == [problem_id |-> 0]
        solution == SolveProblem(problem)
        epoch_salt == HashNew([seed |-> "coinject-genesis-epoch"])
        commitment == CommitmentCreate(problem, solution, epoch_salt)
    IN  [header |-> [version |-> 1, height |-> 0, prev_hash |-> HashZero,
                     timestamp |-> 0, transactions_root |-> HashZero,
                     solutions_root |-> HashNew(solution),
                     commitment |-> commitment, work_score |-> 1,
                     miner |-> AddrA, nonce |-> 0],
         coinbase |-> CoinbaseNew(AddrA, InitialSupply, 0),
         transactions |-> <<>>,
         solution_reveal |-> [problem |-> problem, solution |-> solution,
                              commitment |-> commitment]]

GenesisHash == BlockHash(GenesisBlock)

(***************************************************************************)
(* The block validator (node/src/validator.rs).                            *)
(***************************************************************************)
MinWorkScore == 1

MaxTimestampDrift == 120

MaxBlockAge == 7200

\* A check that refuses a timestamp at the limit of the drift as well.
ValidateTimestampStrict(timestamp, now) ==
    IF timestamp >= now + MaxTimestampDrift THEN "FutureTimestamp"
    ELSE IF timestamp < now - MaxBlockAge THEN "TooOldTimestamp"
    ELSE "ok"

\* validate_timestamp: "ok" or the error.
ValidateTimestamp(timestamp, now) ==
    IF timestamp > now + MaxTimestampDrift THEN "FutureTimestamp"
    ELSE IF timestamp < now - MaxBlockAge THEN "TooOldTimestamp"
    ELSE "ok"

ValidateDifficulty(block) ==
    IF MeetsDifficulty(block.header) THEN "ok" ELSE "InsufficientDifficulty"

\* validate_block: "ok" or the first error, in the order of the code.
ValidateBlock(block, prev_hash, expected_height, now) ==
    IF block.header.height # expected_height THEN "InvalidHeight"
    ELSE IF block.header.prev_hash # prev_hash THEN "InvalidPrevHash"
    ELSE IF ValidateTimestamp(block.header.timestamp, now) # "ok"
         THEN ValidateTimestamp(block.header.timestamp, now)
    ELSE IF ~SolutionVerify(block.solution_reveal.solution,
                            block.solution_reveal.problem)
         THEN "InvalidSolution"
    ELSE IF ~CommitmentVerify(block.solution_reveal.commitment,
                              block.solution_reveal.problem,
                              block.solution_reveal.solution,
                              EpochSalt(block.header.height))
         THEN "InvalidCommitment"
    ELSE IF block.header.work_score < MinWorkScore
         THEN "InsufficientWorkScore"
    ELSE IF ValidateDifficulty(block) # "ok" THEN ValidateDifficulty(block)
    ELSE IF \E i \in 1..Len(block.transactions) :
                ~VerifySignature(block.transactions[i])
         THEN "InvalidTransaction"
    ELSE "ok"

(***************************************************************************)
(* The chain store (node/src/chain.rs): the blocks by hash, the hash of    *)
(* each height, and the best height and hash.                              *)
(***************************************************************************)
\* store_block_raw: the block is written under its hash and its hash under
\* its height, replacing what the height held.
StoreBlockRaw(C, block) ==
    [C EXCEPT
        !.blocks = @ \cup {block},
        !.height_index =
            {e \in @ : e[1] # block.header.height}
            \cup {<<block.header.height, BlockHash(block)>>}]

\* store_block: the chain after the call and the value returned.
StoreBlock(C, block) ==
    LET raw == StoreBlockRaw(C, block)
    IN  IF block.header.height > C.best_height
        THEN [chain |-> [raw EXCEPT !.best_height = block.header.height,
                                    !.best_hash = BlockHash(block)],
              is_new_best |-> TRUE]
        ELSE [chain |-> raw, is_new_best |-> FALSE]

\* ChainState::new on an empty database.
GenesisChain ==
    StoreBlockRaw([blocks |-> {}, height_index |-> {},
                   best_height |-> 0, best_hash |-> GenesisHash],
                  GenesisBlock)

(***************************************************************************)
(* The transaction pool (mempool/src/pool.rs): the queue of pooled         *)
(* transactions in arrival order.                                          *)
(***************************************************************************)
\* PoolConfig: max_transactions and min_fee, scaled.
MaxTransactions == 2

MinFee == 1

PoolContains(pool, tx_hash) ==
    \E i \in 1..Len(pool) : TxHash(pool[i].tx) = tx_hash

\* Ord of PooledTransaction: higher fee first, then earlier received.
Higher(p, q) ==
    \/ TxFee(p.tx) > TxFee(q.tx)
    \/ TxFee(p.tx) = TxFee(q.tx) /\ p.received_at < q.received_at

RemoveAt(seq, i) == SubSeq(seq, 1, i - 1) \o SubSeq(seq, i + 1, Len(seq))

\* The greatest and the least element of the heap (the first in arrival
\* order among equals).
PeekIndex(pool) ==
    CHOOSE i \in 1..Len(pool) :
        \A j \in 1..Len(pool) : j # i => (Higher(pool[i], pool[j])
                                          \/ (~Higher(pool[j], pool[i]) /\ i < j))

LowestIndex(pool) ==
    CHOOSE i \in 1..Len(pool) :
        \A j \in 1..Len(pool) : j # i => (Higher(pool[j], pool[i])
                                          \/ (~Higher(pool[i], pool[j]) /\ i < j))

EvictLowest(pool) ==
    IF Len(pool) = 0 THEN pool ELSE RemoveAt(pool, LowestIndex(pool))

\* TransactionPool::add: the pool after the call and the result.
PoolAdd(pool, tx, now) ==
    LET pooled == [tx |-> tx, received_at |-> now]
    IN  IF PoolContains(pool, TxHash(tx))
        THEN [pool |-> pool, result |-> "DuplicateTransaction"]
        ELSE IF TxFee(tx) < MinFee
        THEN [pool |-> pool, result |-> "FeeTooLow"]
        ELSE IF ~VerifySignature(tx)
        THEN [pool |-> pool, result |-> "InvalidTransaction"]
        ELSE IF Len(pool) >= MaxTransactions
        THEN IF Len(pool) > 0 /\ TxFee(tx) > TxFee(pool[PeekIndex(pool)].tx)
             THEN [pool |-> Append(EvictLowest(pool), pooled), result |-> "ok"]
             ELSE [pool |-> pool, result |-> "PoolFull"]
        ELSE [pool |-> Append(pool, pooled), result |-> "ok"]

\* get_top_n: the pooled transactions, highest first.
RECURSIVE Sorted(_)
Sorted(pool) ==
    IF Len(pool) = 0 THEN <<>>
    ELSE <<pool[PeekIndex(pool)].tx>> \o Sorted(RemoveAt(pool, PeekIndex(pool)))

GetTopN(pool, n) ==
    LET sorted == Sorted(pool)
    IN  SubSeq(sorted, 1, IF Len(sorted) < n THEN Len(sorted) ELSE n)

PoolRemove(pool, tx_hash) ==
    SelectSeq(pool, LAMBDA p : TxHash(p.tx) # tx_hash)

RECURSIVE PoolRemoveAll(_, _)
PoolRemoveAll(pool, hashes) ==
    IF Len(hashes) = 0 THEN pool
    ELSE PoolRemoveAll(PoolRemove(pool, hashes[1]), Tail(hashes))

(***************************************************************************)
(* apply_block_transactions (node/src/service.rs), a whole block.          *)
(***************************************************************************)
\* The coinbase credit: the reward the block carries goes to header.miner.
CreditCoinbase(L, block) ==
    SetBalance(L, block.header.miner,
               GetBalance(L, block.header.miner) + block.coinbase.reward)

\* The loop over the transactions: a failed transaction is skipped (its
\* writes stay), an applied one has its hash pushed on applied_txs.
\* A loop that pushes the hash of every transaction, applied or skipped;
\* PoolAfterBlock does not hold of it.
RECURSIVE ApplyTransactionsAll(_, _, _, _, _)
ApplyTransactionsAll(L, transactions, block_height, now, applied_txs) ==
    IF Len(transactions) = 0 THEN [L |-> L, applied_txs |-> applied_txs]
    ELSE ApplyTransactionsAll(
             ApplySingleTransaction(L, transactions[1], block_height,
                                    now, 0).L,
             Tail(transactions), block_height, now,
             Append(applied_txs, TxHash(transactions[1])))

RECURSIVE ApplyTransactions(_, _, _, _, _)
ApplyTransactions(L, transactions, block_height, now, applied_txs) ==
    IF Len(transactions) = 0 THEN [L |-> L, applied_txs |-> applied_txs]
    ELSE LET r == ApplySingleTransaction(L, transactions[1], block_height,
                                         now, 0)
         IN  ApplyTransactions(r.L, Tail(transactions), block_height, now,
                               IF r.ok
                               THEN Append(applied_txs, TxHash(transactions[1]))
                               ELSE applied_txs)

ApplyBlockTransactions(L, block, now) ==
    ApplyTransactions(CreditCoinbase(L, block), block.transactions,
                      block.header.height, now, <<>>)

(***************************************************************************)
(* State.                                                                  *)
(***************************************************************************)
VARIABLES
    state,        \* the account, time-lock, escrow and channel stores
    clock,        \* wall-clock time (chrono::Utc::now, SystemTime::now)
    blk,          \* the block apply_block_transactions is applying (Spec)
    done,         \* number of blocks the engine has finished (Spec)
    pre_block,    \* history: the stores when the current block began
    last,         \* history: the transaction processed last and its effect
    chain,        \* the chain store
    block_buffer, \* the buffer of future blocks, one per height
    tx_pool,      \* the transaction pool
    handler,      \* the network event task: its position and locals
    mining,       \* the mining task: its position and locals
    applied,      \* history: the blocks applied to the stores, in order
    events,       \* number of network events taken
    broadcast,    \* the blocks sent with NetworkCommand::BroadcastBlock
    validated,    \* history: the blocks validate_block has accepted
    call,         \* a call of the consensus core library and its result
    market,       \* the problem marketplace
    sync          \* the best height a peer has announced, the heights requested

engine_vars == <<blk, done, pre_block, last>>

net_vars == <<broadcast, validated, sync>>

node_vars == <<chain, block_buffer, tx_pool, handler, mining, applied, events,
               broadcast, validated, sync>>

core_vars == <<call, market>>

vars == <<state, clock, blk, done, pre_block, last,
          chain, block_buffer, tx_pool, handler, mining, applied, events,
          broadcast, validated, call, market, sync>>

EmptyState ==
    [balances  |-> [a \in Addresses |-> 0],
     nonces    |-> [a \in Addresses |-> 0],
     timelocks |-> {},
     escrows   |-> [e \in EscrowIds |-> NoEscrow],
     channels  |-> [c \in ChannelIds |-> NoChannel]]

\* CoinjectNode::new: the miner of the genesis block is given its coinbase.
GenesisState ==
    SetBalance(EmptyState, GenesisBlock.header.miner,
               GenesisBlock.coinbase.reward)

Idle == [status |-> "idle"]

NoLast == [valid |-> FALSE]

\* No call of the consensus core library is under way.
NoCall == [fn |-> "none"]

\* No status update has been received and no block requested.
NoSync == [peer_height |-> 0, requested |-> {}]

\* ProblemMarketplace::new.
EmptyMarket == [problems |-> <<>>, escrow |-> <<>>, payments |-> <<>>]

Init ==
    /\ state = GenesisState
    /\ clock = 0
    /\ blk = Idle
    /\ done = 0
    /\ pre_block = GenesisState
    /\ last = NoLast
    /\ chain = GenesisChain
    /\ block_buffer = {}
    /\ tx_pool = <<>>
    /\ handler = [pc |-> "idle"]
    /\ mining = [pc |-> "idle", mined |-> 0]
    /\ applied = <<>>
    /\ events = 0
    /\ broadcast = {}
    /\ validated = {}
    /\ call = NoCall
    /\ market = EmptyMarket
    /\ sync = NoSync

(***************************************************************************)
(* apply_block_transactions, one loop iteration per step.  BeginBlock is   *)
(* the coinbase credit, ApplyTx one iteration of the loop over the block's *)
(* transactions (the block's content is chosen as the loop goes, which     *)
(* ranges over every block of at most MaxTxPerBlock transactions), and     *)
(* EndBlock the return of Ok(applied_txs).                                 *)
(***************************************************************************)
BeginBlock(miner, reward, fail) ==
    /\ blk.status \in {"idle", "ended", "failed"}
    /\ done < MaxBlocks
    /\ pre_block' = state
    /\ IF fail
       THEN \* set_balance of the miner fails: Err is returned at once
            /\ state' = state
            /\ blk' = [status |-> "failed"]
       ELSE /\ state' = SetBalance(state, miner, GetBalance(state, miner) + reward)
            /\ blk' = [status |-> "applying", miner |-> miner,
                       reward |-> reward, height |-> done + 1,
                       count |-> 0,
                       fees |-> 0, store_failed |-> FALSE]
    /\ UNCHANGED <<clock, done, last>>
    /\ UNCHANGED node_vars
    /\ UNCHANGED core_vars

ApplyTx(tx, fail_at) ==
    /\ blk.status = "applying"
    /\ blk.count < MaxTxPerBlock
    /\ fail_at <= WriteCount(state, tx, blk.height, clock)
    /\ LET r == ApplySingleTransaction(state, tx, blk.height, clock, fail_at)
       IN  /\ state' = r.L
           /\ blk' = [blk EXCEPT
                        !.count = @ + 1,
                        !.fees = IF r.ok THEN @ + TxFee(tx) ELSE @,
                        !.store_failed = @ \/ fail_at > 0]
           /\ last' = [valid |-> TRUE, tx |-> tx, pre |-> state, post |-> r.L,
                       ok |-> r.ok, fail_at |-> fail_at]
    /\ UNCHANGED <<clock, done, pre_block>>
    /\ UNCHANGED node_vars
    /\ UNCHANGED core_vars

EndBlock ==
    /\ blk.status = "applying"
    /\ blk' = [blk EXCEPT !.status = "ended"]
    /\ done' = done + 1
    /\ UNCHANGED <<state, clock, pre_block, last>>
    /\ UNCHANGED node_vars
    /\ UNCHANGED core_vars

\* The process is stopped while a block is being applied.  Every write made
\* so far was committed by its own store transaction and stays.
AbortBlock ==
    /\ blk.status = "applying"
    /\ blk' = [blk EXCEPT !.status = "aborted"]
    /\ UNCHANGED <<state, clock, done, pre_block, last>>
    /\ UNCHANGED node_vars
    /\ UNCHANGED core_vars

Tick ==
    /\ clock < MaxTime
    /\ blk.status # "aborted"
    /\ clock' = clock + 1
    /\ UNCHANGED <<state, blk, done, pre_block, last>>
    /\ UNCHANGED node_vars
    /\ UNCHANGED core_vars

Next ==
    \/ \E m \in Miners, f \in BOOLEAN : BeginBlock(m, BlockReward, f)
    \/ \E tx \in EngineTxs, k \in 0..MaxWrites : ApplyTx(tx, k)
    \/ EndBlock
    \/ AbortBlock
    \/ Tick

Spec == Init /\ [][Next]_vars

(***************************************************************************)
(* Inputs of the node: the transactions and the blocks peers send.         *)
(***************************************************************************)
\* Network events handled in one behaviour of SpecNode.
MaxEvents == 3
\* Blocks mined by the node in one behaviour of SpecNode.
MaxMined == 1
\* Heights of the blocks peers send.
MaxHeight == 2

\* A transfer signed by its sender, one that names AddrA as its sender but
\* carries the key of another party and that party's signature, and one
\* altered after it was signed.
TxHonest == NewTransfer(AddrA, AddrB, Amount, Fee, 0, "kA")

TxForged == NewTransfer(AddrA, AddrM, Amount, Fee, 0, "kM")

TxTampered == [TxHonest EXCEPT !.amount = Amount + 1]

NodeTxs == {TxHonest, TxForged, TxTampered}

NodeTxLists == {<<>>, <<TxHonest>>, <<TxForged>>}

\* What a peer did to a block it mined: nothing; a coinbase above the reward
\* of the policy; a transaction added after the header was built; a
\* timestamp in the future.
Flaws == {"none", "reward", "altered", "future"}

Flawed(block, flaw) ==
    CASE flaw = "none" -> block
      [] flaw = "reward" -> [block EXCEPT !.coinbase.reward = @ + 1]
      [] flaw = "altered" ->
            [block EXCEPT !.transactions = Append(@, TxForged)]
      [] flaw = "future" ->
            [block EXCEPT
                !.header.timestamp = MaxTime + MaxTimestampDrift + 1]

\* The parents peers build on: the genesis block at height 1, above it the
\* blocks of peers one height below and the node's best block.
RECURSIVE NetParents(_)
NetParents(height) ==
    IF height <= 1 THEN {GenesisHash}
    ELSE {BlockHash(MineBlock(q, height - 1, <<>>, AddrM, 0)) :
            q \in NetParents(height - 1)} \cup {chain.best_hash}

\* The blocks peers send: at each height and on each parent, a block as
\* mined for each list of transactions, and an empty block with each flaw.
NetBlocks ==
    UNION {{MineBlock(q, h, txs, AddrM, 0) :
                q \in NetParents(h), txs \in NodeTxLists}
           \cup {Flawed(MineBlock(q, h, <<>>, AddrM, 0), f) :
                    q \in NetParents(h), f \in Flaws} :
           h \in 1..MaxHeight}

\* The number of transactions the mining loop takes from the pool
\* (get_top_n(100) against a pool of 10,000), scaled as MaxTransactions is.
TopN == 1

(***************************************************************************)
(* The network event task (handle_network_event, process_buffered_blocks). *)
(* One action per stretch of code between two accesses to the shared chain *)
(* store, stores and pool: the tasks run on separate threads.              *)
(***************************************************************************)
BufferedAt(height) == {b \in block_buffer : b.header.height = height}

\* BlockReceived up to the branch on the height of the block.
ReceiveBlock(block) ==
    /\ handler.pc = "idle"
    /\ events < MaxEvents
    /\ events' = events + 1
    /\ LET expected_height == chain.best_height + 1
       IN  IF block.header.height = expected_height
           THEN /\ handler' = [pc |-> "validate", block |-> block,
                               expected_height |-> expected_height,
                               source |-> "network"]
                /\ UNCHANGED block_buffer
           ELSE IF block.header.height > expected_height
           THEN /\ block_buffer' =
                      IF BufferedAt(block.header.height) = {}
                      THEN block_buffer \cup {block} ELSE block_buffer
                /\ UNCHANGED handler
           ELSE UNCHANGED <<handler, block_buffer>>
    /\ UNCHANGED <<state, clock, chain, tx_pool, mining, applied>>
    /\ UNCHANGED engine_vars
    /\ UNCHANGED core_vars
    /\ UNCHANGED net_vars

\* best_block_hash and validate_block.
HandlerValidate ==
    /\ handler.pc = "validate"
    /\ handler' =
          IF ValidateBlock(handler.block, chain.best_hash,
                           handler.expected_height, clock) = "ok"
          THEN [pc |-> "store", block |-> handler.block,
                source |-> handler.source, best_hash |-> chain.best_hash]
          ELSE [pc |-> "idle"]
    /\ validated' =
          IF ValidateBlock(handler.block, chain.best_hash,
                           handler.expected_height, clock) = "ok"
          THEN validated \cup {handler.block} ELSE validated
    /\ UNCHANGED <<state, clock, chain, block_buffer, tx_pool, mining,
                   applied, events, broadcast, sync>>
    /\ UNCHANGED engine_vars
    /\ UNCHANGED core_vars

\* store_block.
HandlerStore ==
    /\ handler.pc = "store"
    /\ LET r == StoreBlock(chain, handler.block)
       IN  /\ chain' = r.chain
           /\ handler' = IF r.is_new_best
                         THEN [handler EXCEPT !.pc = "apply"]
                         ELSE [pc |-> "idle"]
    /\ UNCHANGED <<state, clock, block_buffer, tx_pool, mining, applied,
                   events>>
    /\ UNCHANGED engine_vars
    /\ UNCHANGED core_vars
    /\ UNCHANGED net_vars

Applied(block, by, L, applied_txs) ==
    [block |-> block, by |-> by, applied_txs |-> applied_txs,
     credited |-> GetBalance(CreditCoinbase(L, block), block.header.miner)
                  - GetBalance(L, block.header.miner)]

\* apply_block_transactions and the removal of the applied transactions
\* from the pool.
HandlerApply ==
    /\ handler.pc = "apply"
    /\ LET r == ApplyBlockTransactions(state, handler.block, clock)
       IN  /\ state' = r.L
           /\ tx_pool' = PoolRemoveAll(tx_pool, r.applied_txs)
           /\ applied' = Append(applied, Applied(handler.block, handler.source,
                                                 state, r.applied_txs))
    /\ handler' = [pc |-> "buffered"]
    /\ UNCHANGED <<clock, chain, block_buffer, mining, events>>
    /\ UNCHANGED engine_vars
    /\ UNCHANGED core_vars
    /\ UNCHANGED net_vars

\* process_buffered_blocks: the head of the loop.
HandlerBuffered ==
    /\ handler.pc = "buffered"
    /\ LET next_height == chain.best_height + 1
       IN  IF BufferedAt(next_height) = {}
           THEN /\ handler' = [pc |-> "idle"]
                /\ UNCHANGED block_buffer
           ELSE LET block == CHOOSE b \in BufferedAt(next_height) : TRUE
                IN  /\ block_buffer' = block_buffer \ {block}
                    /\ handler' = [pc |-> "validate", block |-> block,
                                   expected_height |-> next_height,
                                   source |-> "buffer"]
    /\ UNCHANGED <<state, clock, chain, tx_pool, mining, applied, events>>
    /\ UNCHANGED engine_vars
    /\ UNCHANGED core_vars
    /\ UNCHANGED net_vars

\* TransactionReceived.
ReceiveTransaction(tx) ==
    /\ handler.pc = "idle"
    /\ events < MaxEvents
    /\ events' = events + 1
    /\ tx_pool' = IF VerifySignature(tx)
                  THEN PoolAdd(tx_pool, tx, clock).pool ELSE tx_pool
    /\ UNCHANGED <<state, clock, chain, block_buffer, handler, mining, applied>>
    /\ UNCHANGED engine_vars
    /\ UNCHANGED core_vars
    /\ UNCHANGED net_vars

\* get_block_by_height: the block whose hash the height index holds, or
\* None.
HasBlockAtHeight(C, height) == \E e \in C.height_index : e[1] = height

GetBlockByHeight(C, height) ==
    LET e == CHOOSE x \in C.height_index : x[1] = height
    IN  CHOOSE b \in C.blocks : BlockHash(b) = e[2]

\* The blocks the loop of BlocksRequested sends: those of the heights from
\* from_height upward, up to to_height or the first height without a block.
RECURSIVE ServedBlocks(_, _, _)
ServedBlocks(C, from_height, to_height) ==
    IF from_height > to_height \/ ~HasBlockAtHeight(C, from_height) THEN {}
    ELSE {GetBlockByHeight(C, from_height)}
         \cup ServedBlocks(C, from_height + 1, to_height)

\* BlocksRequested.
BlocksRequested(from_height, to_height) ==
    /\ handler.pc = "idle"
    /\ events < MaxEvents
    /\ events' = events + 1
    /\ broadcast' = broadcast \cup ServedBlocks(chain, from_height, to_height)
    /\ UNCHANGED <<state, clock, chain, block_buffer, tx_pool, handler, mining,
                   applied, validated, sync>>
    /\ UNCHANGED engine_vars
    /\ UNCHANGED core_vars

(***************************************************************************)
(* The mining task (mining_loop).                                          *)
(***************************************************************************)
\* The tip is read, the transactions are taken from the pool and the block
\* is mined.
MinerStart ==
    /\ mining.pc = "idle"
    /\ mining.mined < MaxMined
    /\ mining' = [pc |-> "store", mined |-> mining.mined,
                  best_hash |-> chain.best_hash,
                  block |-> MineBlock(chain.best_hash, chain.best_height + 1,
                                      GetTopN(tx_pool, TopN), AddrA, clock)]
    /\ UNCHANGED <<state, clock, chain, block_buffer, tx_pool, handler,
                   applied, events>>
    /\ UNCHANGED engine_vars
    /\ UNCHANGED core_vars
    /\ UNCHANGED net_vars

\* store_block; the value it returns is not looked at.
MinerStore ==
    /\ mining.pc = "store"
    /\ chain' = StoreBlock(chain, mining.block).chain
    /\ mining' = [mining EXCEPT !.pc = "apply"]
    /\ UNCHANGED <<state, clock, block_buffer, tx_pool, handler, applied,
                   events>>
    /\ UNCHANGED engine_vars
    /\ UNCHANGED core_vars
    /\ UNCHANGED net_vars

\* apply_block_transactions, the removal from the pool and the broadcast.
MinerApply ==
    /\ mining.pc = "apply"
    /\ LET r == ApplyBlockTransactions(state, mining.block, clock)
       IN  /\ state' = r.L
           /\ tx_pool' = PoolRemoveAll(tx_pool, r.applied_txs)
           /\ applied' = Append(applied, Applied(mining.block, "miner", state,
                                                 r.applied_txs))
    /\ mining' = [pc |-> "idle", mined |-> mining.mined + 1]
    /\ broadcast' = broadcast \cup {mining.block}
    /\ UNCHANGED <<clock, chain, block_buffer, handler, events, validated,
                   sync>>
    /\ UNCHANGED engine_vars
    /\ UNCHANGED core_vars

NodeTick ==
    /\ clock < MaxTime
    /\ clock' = clock + 1
    /\ UNCHANGED <<state, chain, block_buffer, tx_pool, handler, mining,
                   applied, events>>
    /\ UNCHANGED engine_vars
    /\ UNCHANGED core_vars
    /\ UNCHANGED net_vars

NextNode ==
    \/ \E block \in NetBlocks : ReceiveBlock(block)
    \/ HandlerValidate
    \/ HandlerStore
    \/ HandlerApply
    \/ HandlerBuffered
    \/ \E tx \in NodeTxs : ReceiveTransaction(tx)
    \/ \E from_height \in 1..MaxHeight, to_height \in 1..MaxHeight :
            BlocksRequested(from_height, to_height)
    \/ MinerStart
    \/ MinerStore
    \/ MinerApply
    \/ NodeTick

SpecNode == Init /\ [][NextNode]_vars

\* The two tasks are spawned on the tokio runtime, which keeps running a
\* task that can take its next step; the arrival of network events is left
\* to the peers.
SpecNodeFair ==
    /\ SpecNode
    /\ WF_vars(HandlerValidate \/ HandlerStore \/ HandlerApply
                \/ HandlerBuffered)
    /\ WF_vars(MinerStart \/ MinerStore \/ MinerApply)

(***************************************************************************)
(* Sync (handle_network_event, StatusUpdate): the node asks for the blocks *)
(* it misses and the peer answers a request as BlocksRequested does, with  *)
(* the blocks of its chain in ascending order.                             *)
(***************************************************************************)
\* The chain of the peer: empty blocks mined on the genesis block.
PeerChain ==
    {MineBlock(GenesisHash, 1, <<>>, AddrM, 0),
     MineBlock(BlockHash(MineBlock(GenesisHash, 1, <<>>, AddrM, 0)), 2, <<>>,
               AddrM, 0)}

\* StatusUpdate: if the peer is ahead, RequestBlocks is sent for the heights
\* from our_height + 1 to best_height (one chunk: the range is below 100).
StatusUpdate(best_height) ==
    /\ handler.pc = "idle"
    /\ events < MaxEvents
    /\ events' = events + 1
    /\ LET our_height == chain.best_height
       IN  sync' = [peer_height |-> best_height,
                    requested |->
                        IF best_height > our_height + 1
                        THEN sync.requested
                                 \cup (our_height + 1)..best_height
                        ELSE sync.requested]
    /\ UNCHANGED <<state, clock, chain, block_buffer, tx_pool, handler, mining,
                   applied, broadcast, validated>>
    /\ UNCHANGED engine_vars
    /\ UNCHANGED core_vars

\* The peer answers RequestBlocks: the next block the node misses, if it
\* was requested, arrives as a BlockReceived event.
BlocksAnswered ==
    \E block \in PeerChain :
        /\ block.header.height \in sync.requested
        /\ block.header.height = chain.best_height + 1
        /\ ReceiveBlock(block)

NextSync ==
    \/ \E best_height \in 0..MaxHeight : StatusUpdate(best_height)
    \/ BlocksAnswered
    \/ \E block \in NetBlocks : ReceiveBlock(block)
    \/ HandlerValidate
    \/ HandlerStore
    \/ HandlerApply
    \/ HandlerBuffered
    \/ NodeTick

\* The event task takes its next step whenever it has one, and a peer
\* answers the requests it was sent.
SpecSync ==
    /\ Init
    /\ [][NextSync]_vars
    /\ WF_vars(HandlerValidate \/ HandlerStore \/ HandlerApply
                \/ HandlerBuffered)
    /\ WF_vars(BlocksAnswered)

\* A transfer of B, whose balance never covers it, at a fee above Fee.
TxUnfunded == NewTransfer(AddrB, AddrA, Amount, Fee + 1, 0, "kB")

\* The mining loop alone, with the transactions arriving from the network.
\* The loop is a task of the tokio runtime woken by its timer every ten
\* seconds, so it takes its next step whenever it has one.
SpecMiner ==
    /\ Init
    /\ [][\/ \E tx \in {TxHonest, TxUnfunded} : ReceiveTransaction(tx)
          \/ MinerStart
          \/ MinerStore
          \/ MinerApply
          \/ NodeTick]_vars
    /\ WF_vars(MinerStart \/ MinerStore \/ MinerApply)

(***************************************************************************)
(* The consensus core library (coinjecture-core): the budgeted verifier,   *)
(* the commit-reveal protocol and the Merkle tree, and two functions of    *)
(* the node that are checked on their own (validate_timestamp and          *)
(* AccountState::transfer).  Each is a function of its arguments; the      *)
(* variable call holds the arguments of one call and, once the call has    *)
(* returned, its result.                                                   *)
(***************************************************************************)
\* A signed 64-bit integer, written top * 2^62 + low with low small: the
\* values near zero and the values near the two ends of the range of i64.
I64(top, low) == [top |-> top, low |-> low]

I64Max == I64(2, -1)

I64Min == I64(-2, 0)

I64Leq(a, b) == a.top < b.top \/ (a.top = b.top /\ a.low <= b.low)

\* The sum of two integers as a mathematical integer.
I64Plus(a, b) == I64(a.top + b.top, a.low + b.low)

\* An addition that reports an overflow whatever its operands.
CheckedAddNone(a, b) == [some |-> FALSE]

\* i64::checked_add: None when the sum is outside the range of i64.
CheckedAdd(a, b) ==
    LET s == I64Plus(a, b)
    IN  IF I64Leq(I64Min, s) /\ I64Leq(s, I64Max)
        THEN [some |-> TRUE, value |-> s]
        ELSE [some |-> FALSE]

\* HardwareTier::element_range.
ElementRange(tier) ==
    CASE tier = "Mobile"      -> <<8, 12>>
      [] tier = "Desktop"     -> <<12, 16>>
      [] tier = "Workstation" -> <<16, 20>>
      [] tier = "Server"      -> <<20, 24>>
      [] tier = "Cluster"     -> <<24, 32>>

Err(e) == [ok |-> FALSE, err |-> e]

\* An insertion into a set that reports every value as new.
InsertAsNew(seen, index) == [inserted |-> TRUE, set |-> seen \cup {index}]

\* HashSet::insert: whether the value was absent, and the set with it.
HashSetInsert(seen, index) ==
    [inserted |-> index \notin seen, set |-> seen \cup {index}]

\* verify_subset_sum.  Indices count from 0 as in the code; elements[i + 1]
\* is the element of index i.
VerifySubsetSum(problem, solution, budget) ==
    LET elements == problem.elements
        indices == solution.indices
        range == ElementRange(problem.tier)
        \* 3. the loop that looks for duplicate indices, from position i on
        RECURSIVE CheckDuplicates(_, _, _)
        CheckDuplicates(i, ops_used, seen) ==
            IF i > Len(indices)
            THEN [ok |-> TRUE, ops_used |-> ops_used, seen |-> seen]
            ELSE IF ops_used + 1 > budget.max_ops
            THEN Err("BudgetOpsExceeded")
            ELSE LET r == HashSetInsert(seen, indices[i])
                 IN  IF ~r.inserted
                     THEN Err("DuplicateIndex")
                     ELSE CheckDuplicates(i + 1, ops_used + 1, r.set)
        \* 4. the loop that sums the selected elements, from position i on
        RECURSIVE ComputeSum(_, _, _)
        ComputeSum(i, ops_used, sum) ==
            IF i > Len(indices)
            THEN [ok |-> TRUE, ops_used |-> ops_used, sum |-> sum]
            ELSE IF ops_used + 1 > budget.max_ops
            THEN Err("BudgetOpsExceeded")
            ELSE IF indices[i] >= Len(elements)
            THEN Err("IndexOutOfBounds")
            ELSE LET s == CheckedAdd(sum, elements[indices[i] + 1])
                 IN  IF ~s.some
                     THEN Err("InvalidInput")
                     ELSE ComputeSum(i + 1, ops_used + 1, s.value)
    IN  \* 1. validate_tier_constraints
        IF Len(elements) < range[1] \/ Len(elements) > range[2]
        THEN Err("TierConstraintViolation")
        \* 2. the solution is no longer than the list of elements
        ELSE IF Len(indices) > Len(elements)
        THEN Err("InvalidProofSize")
        ELSE LET d == CheckDuplicates(1, 0, {})
             IN  IF ~d.ok THEN d
                 ELSE LET c == ComputeSum(1, d.ops_used, I64(0, 0))
                          memory_used ==
                              Len(indices) * 4 + Cardinality(d.seen) * 4
                      IN  IF ~c.ok THEN c
                          \* 5. the sum is the target
                          ELSE IF c.sum # problem.target
                          THEN Err("SubsetSumInvalid")
                          ELSE IF memory_used > budget.max_memory_bytes
                          THEN Err("TierMemoryLimitExceeded")
                          ELSE [ok |-> TRUE, valid |-> TRUE,
                                ops_used |-> c.ops_used, duration_ms |-> 0,
                                memory_used |-> memory_used]

\* verify_solution; elapsed is the wall-clock time the call took, in ms.
VerifySolution(problem, solution, budget, elapsed) ==
    IF problem.problem_type # "SubsetSum"
    THEN Err("NotImplemented")
    ELSE LET result == VerifySubsetSum(problem, solution, budget)
         IN  IF ~result.ok THEN result
             ELSE IF elapsed > budget.max_duration_ms
             THEN Err("BudgetTimeExceeded")
             ELSE result

\* The problems, solutions and budgets the verifier is called with.
\* Lengths of the solutions drawn in full.
MaxIndices == 3

\* The first n positive integers.
Counting(n) == [i \in 1..n |-> I64(0, i)]

\* Lists of 7, 8, 12 and 13 elements (one below the range of Mobile, its
\* two ends, and one above it, which is inside the range of Desktop), and
\* a list of 8 elements that begins with the largest value of i64.
ElementLists ==
    {Counting(7), Counting(8), Counting(12), Counting(13),
     <<I64Max, I64(0, 1), I64(0, -1)>> \o SubSeq(Counting(8), 4, 8)}

Targets == {I64(0, 3), I64(0, 6), I64Max}

Problems ==
    [problem_type : {"SubsetSum"}, tier : {"Mobile", "Desktop"},
     elements : ElementLists, target : Targets]
    \cup [problem_type : {"Knapsack", "SAT"}, tier : {"Mobile"},
          elements : {Counting(8)}, target : {I64(0, 3)}]

\* Every list of at most MaxIndices indices among 0, 1, 2 and 12, and two
\* lists of 9 indices.
Solutions ==
    [indices : UNION {[1..n -> {0, 1, 2, 12}] : n \in 0..MaxIndices}
               \cup {[i \in 1..9 |-> i - 1],
                     [i \in 1..9 |-> IF i = 9 THEN 0 ELSE i - 1]}]

Budgets ==
    [max_ops : {1, 3, 6}, max_duration_ms : {0}, max_memory_bytes : {16, 64}]

VerifyCalls ==
    [fn : {"verify_solution"}, problem : Problems, solution : Solutions,
     budget : Budgets, elapsed : {0, 1}, returned : {FALSE}]

\* verify_solution runs and returns.
CallVerifySolution ==
    /\ call.fn = "verify_solution" /\ ~call.returned
    /\ call' = [fn |-> call.fn, problem |-> call.problem,
                solution |-> call.solution, budget |-> call.budget,
                elapsed |-> call.elapsed, returned |-> TRUE,
                result |-> VerifySolution(call.problem, call.solution,
                                          call.budget, call.elapsed)]
    /\ UNCHANGED <<state, clock, market>>
    /\ UNCHANGED engine_vars
    /\ UNCHANGED node_vars

\* A salt that depends on the parent hash alone.
EpochSaltOfParent(parent_hash, block_index) ==
    HashNew([parent_hash |-> parent_hash])

\* compute_epoch_salt: SHA-256 of the 32 bytes of the parent hash followed
\* by the 8 bytes of the block index.
ComputeEpochSalt(parent_hash, block_index) ==
    HashNew([parent_hash |-> parent_hash, block_index |-> block_index])

\* compute_hash_msgpack: SHA-256 of the MessagePack encoding of a value,
\* the map of its field names to its field values.
ComputeHashMsgpack(value) == HashNew([msgpack |-> value])

\* create_commitment.
CreateCommitment(problem, solution, miner_salt, parent_hash, block_index) ==
    [epoch_salt |-> ComputeEpochSalt(parent_hash, block_index),
     problem_hash |-> ComputeHashMsgpack(problem),
     solution_hash |-> ComputeHashMsgpack(solution),
     miner_salt |-> miner_salt]

\* verify_commitment.
VerifyCommitment(commitment, reveal, parent_hash, block_index) ==
    IF commitment.epoch_salt # ComputeEpochSalt(parent_hash, block_index)
    THEN Err("EpochBindingFailed")
    ELSE IF commitment.problem_hash # ComputeHashMsgpack(reveal.problem)
    THEN Err("ProblemHashMismatch")
    ELSE IF commitment.solution_hash # ComputeHashMsgpack(reveal.solution)
    THEN Err("SolutionHashMismatch")
    ELSE IF commitment.miner_salt # reveal.miner_salt
    THEN Err("MinerSaltInvalid")
    ELSE [ok |-> TRUE]

\* The problems, solutions, salts, parents and heights of the commitments.
CommitProblems ==
    [problem_type : {"SubsetSum"}, tier : {"Mobile"},
     elements : {Counting(8)}, target : {I64(0, 3), I64(0, 6)}]

CommitSolutions == [indices : {<<0, 1>>, <<0, 1, 2>>}]

MinerSalts == {"salt1", "salt2"}

ParentHashes32 == {HashZero, HashNew([block |-> "parent"])}

\* Block indices from 1 to MaxIndex.
MaxIndex == 2

Reveals ==
    [problem : CommitProblems, solution : CommitSolutions,
     miner_salt : MinerSalts, nonce : {0}]

\* A commitment is created for (create.parent_hash, create.block_index) and
\* verified against reveal at (parent_hash, block_index).
CommitmentCalls ==
    [fn : {"verify_commitment"},
     create : [problem : CommitProblems, solution : CommitSolutions,
               miner_salt : MinerSalts, parent_hash : ParentHashes32,
               block_index : 1..MaxIndex],
     reveal : Reveals, parent_hash : ParentHashes32,
     block_index : 1..MaxIndex, returned : {FALSE}]

\* create_commitment and then verify_commitment run and return.
CallVerifyCommitment ==
    /\ call.fn = "verify_commitment" /\ ~call.returned
    /\ LET commitment ==
               CreateCommitment(call.create.problem, call.create.solution,
                                call.create.miner_salt,
                                call.create.parent_hash,
                                call.create.block_index)
       IN  call' = [fn |-> call.fn, create |-> call.create,
                    reveal |-> call.reveal, parent_hash |-> call.parent_hash,
                    block_index |-> call.block_index, returned |-> TRUE,
                    commitment |-> commitment,
                    result |-> VerifyCommitment(commitment, call.reveal,
                                                call.parent_hash,
                                                call.block_index)]
    /\ UNCHANGED <<state, clock, market>>
    /\ UNCHANGED engine_vars
    /\ UNCHANGED node_vars

\* combine_hashes: SHA-256 of the 64 bytes left || right.
CombineHashes(left, right) == HashNew([bytes |-> <<left, right>>])

\* One pass of the loop of compute_merkle_root and generate_merkle_proof
\* over a level: each pair is combined, a last node without a partner is
\* promoted as it is.
RECURSIVE MerkleNextLevel(_)
MerkleNextLevel(level) ==
    IF Len(level) = 0 THEN <<>>
    ELSE IF Len(level) = 1 THEN <<level[1]>>
    ELSE <<CombineHashes(level[1], level[2])>>
         \o MerkleNextLevel(SubSeq(level, 3, Len(level)))

\* compute_merkle_root.
RECURSIVE ComputeMerkleRoot(_)
ComputeMerkleRoot(tx_hashes) ==
    IF Len(tx_hashes) = 0 THEN HashZero
    ELSE IF Len(tx_hashes) = 1 THEN tx_hashes[1]
    ELSE ComputeMerkleRoot(MerkleNextLevel(tx_hashes))

\* A proof generator that records the node itself in place of its sibling.
RECURSIVE ProofPathOfSelf(_, _)
ProofPathOfSelf(level, current_index) ==
    IF Len(level) <= 1 THEN <<>>
    ELSE LET i == current_index \div 2
             here == IF 2 * i + 2 <= Len(level)
                     THEN <<[sibling |-> level[current_index + 1],
                             is_right |-> current_index % 2 = 1]>>
                     ELSE <<>>
         IN  here \o ProofPathOfSelf(MerkleNextLevel(level), i)

\* The loop of generate_merkle_proof from a level on: the sibling of the
\* node at current_index (counted from 0) and the side the node is on, for
\* every level at which the node has a sibling.
RECURSIVE ProofPath(_, _)
ProofPath(level, current_index) ==
    IF Len(level) <= 1 THEN <<>>
    ELSE LET i == current_index \div 2
             here == IF 2 * i + 2 <= Len(level)
                     THEN IF 2 * i = current_index
                          THEN <<[sibling |-> level[2 * i + 2],
                                  is_right |-> FALSE]>>
                          ELSE <<[sibling |-> level[2 * i + 1],
                                  is_right |-> TRUE]>>
                     ELSE <<>>
         IN  here \o ProofPath(MerkleNextLevel(level), i)

\* generate_merkle_proof.
GenerateMerkleProof(tx_hashes, tx_index) ==
    IF tx_index >= Len(tx_hashes)
    THEN Err("IndexOutOfBounds")
    ELSE LET p == ProofPath(tx_hashes, tx_index)
         IN  [ok |-> TRUE, tx_index |-> tx_index,
              path |-> [k \in 1..Len(p) |-> p[k].sibling],
              directions |-> [k \in 1..Len(p) |-> p[k].is_right]]

\* verify_merkle_proof.
VerifyMerkleProof(tx_hash, proof, expected_root) ==
    LET RECURSIVE Fold(_, _)
        Fold(current_hash, k) ==
            IF k > Len(proof.path) THEN current_hash
            ELSE Fold(IF proof.directions[k]
                      THEN CombineHashes(proof.path[k], current_hash)
                      ELSE CombineHashes(current_hash, proof.path[k]),
                      k + 1)
    IN  IF Len(proof.path) # Len(proof.directions)
        THEN Err("MerkleProofInvalid")
        ELSE IF Fold(tx_hash, 1) # expected_root
        THEN Err("MerkleRootMismatch")
        ELSE [ok |-> TRUE]

\* Lists of at most MaxLeaves leaves.
MaxLeaves == 4

\* Leaf values, one of which is also the hash of a pair of the others, and
\* a value that is in no list.
LeafA == HashNew([leaf |-> "a"])

LeafB == HashNew([leaf |-> "b"])

LeafValues == {LeafA, LeafB, CombineHashes(LeafA, LeafB)}

OtherValue == HashNew([leaf |-> "other"])

\* The root of leaves is computed, the proof for tx_index is generated
\* from leaves, and tx_hash is verified with it against the root.
MerkleCalls ==
    [fn : {"merkle"},
     leaves : UNION {[1..n -> LeafValues] : n \in 0..MaxLeaves},
     tx_index : 0..MaxLeaves, tx_hash : LeafValues \cup {OtherValue},
     returned : {FALSE}]

\* compute_merkle_root, generate_merkle_proof and verify_merkle_proof run
\* and return; the root the node's MerkleTree gives the same leaves is
\* taken as well.
CallMerkle ==
    /\ call.fn = "merkle" /\ ~call.returned
    /\ LET root == ComputeMerkleRoot(call.leaves)
           proof == GenerateMerkleProof(call.leaves, call.tx_index)
       IN  call' = [fn |-> call.fn, leaves |-> call.leaves,
                    tx_index |-> call.tx_index, tx_hash |-> call.tx_hash,
                    returned |-> TRUE, root |-> root,
                    node_root |-> CalculateRoot(call.leaves),
                    proof |-> proof,
                    result |-> IF proof.ok
                               THEN VerifyMerkleProof(call.tx_hash, proof,
                                                      root)
                               ELSE proof]
    /\ UNCHANGED <<state, clock, market>>
    /\ UNCHANGED engine_vars
    /\ UNCHANGED node_vars

\* The times the validator reads from the system clock and the distances
\* from them to the block timestamps it is given, in seconds.
Nows == {0, 7200, 10000}

TimestampOffsets == {-7201, -7200, -7199, -1, 0, 1, 119, 120, 121}

TimestampCalls ==
    {[fn |-> "validate_timestamp", timestamp |-> now + d, now |-> now,
      returned |-> FALSE] : now \in Nows, d \in TimestampOffsets}

\* validate_timestamp runs and returns.
CallValidateTimestamp ==
    /\ call.fn = "validate_timestamp" /\ ~call.returned
    /\ call' = [fn |-> call.fn, timestamp |-> call.timestamp,
                now |-> call.now, returned |-> TRUE,
                result |-> ValidateTimestamp(call.timestamp, call.now)]
    /\ UNCHANGED <<state, clock, market>>
    /\ UNCHANGED engine_vars
    /\ UNCHANGED node_vars

\* AccountState::transfer: the two balances are read, then written in one
\* store transaction, the sender's first; store_fails says that the store
\* refuses the write transaction.
AccountTransfer(L, from, to, amount, store_fails) ==
    LET from_balance == GetBalance(L, from)
        to_balance == GetBalance(L, to)
    IN  IF from_balance < amount
        THEN [L |-> L, ok |-> FALSE, err |-> "InsufficientBalance"]
        ELSE IF store_fails
        THEN [L |-> L, ok |-> FALSE, err |-> "DatabaseError"]
        ELSE [L |-> SetBalance(SetBalance(L, from, from_balance - amount),
                               to, to_balance + amount),
              ok |-> TRUE]

\* Balances of the accounts before a transfer, and amounts transferred.
MaxBalance == 2

MaxAmount == 3

TransferCalls ==
    [fn : {"transfer"},
     L : {[EmptyState EXCEPT !.balances = b] :
              b \in [Addresses -> 0..MaxBalance]},
     from : Addresses, to : Addresses, amount : 0..MaxAmount,
     store_fails : BOOLEAN, returned : {FALSE}]

\* AccountState::transfer runs and returns.
CallTransfer ==
    /\ call.fn = "transfer" /\ ~call.returned
    /\ call' = [fn |-> call.fn, L |-> call.L, from |-> call.from,
                to |-> call.to, amount |-> call.amount,
                store_fails |-> call.store_fails, returned |-> TRUE,
                result |-> AccountTransfer(call.L, call.from, call.to,
                                           call.amount, call.store_fails)]
    /\ UNCHANGED <<state, clock, market>>
    /\ UNCHANGED engine_vars
    /\ UNCHANGED node_vars

\* The inputs of TransactionPool::add: transfers of A with fees from 0 to
\* MaxFee and a forged one, and the pools add can have built from them
\* (signed, with a fee of MinFee or more, no hash twice, in arrival order).
MaxFee == 3

PoolTxs ==
    {NewTransfer(AddrA, AddrB, Amount, fee, nonce, "kA") :
         fee \in 0..MaxFee, nonce \in 0..1}
    \cup {NewTransfer(AddrA, AddrM, Amount, Fee, 0, "kM")}

Pooled ==
    [tx : {tx \in PoolTxs : VerifySignature(tx) /\ TxFee(tx) >= MinFee},
     received_at : 0..MaxTime]

Pools ==
    {pool \in UNION {[1..n -> Pooled] : n \in 0..MaxTransactions} :
        \A i, j \in 1..Len(pool) :
            i < j => /\ pool[i].tx # pool[j].tx
                     /\ pool[i].received_at <= pool[j].received_at}

PoolCalls ==
    {c \in [fn : {"add"}, pool : Pools, tx : PoolTxs, now : 0..MaxTime,
            returned : {FALSE}] :
        \A i \in 1..Len(c.pool) : c.pool[i].received_at <= c.now}

\* TransactionPool::add runs and returns.
CallPoolAdd ==
    /\ call.fn = "add" /\ ~call.returned
    /\ call' = [fn |-> call.fn, pool |-> call.pool, tx |-> call.tx,
                now |-> call.now, returned |-> TRUE,
                result |-> PoolAdd(call.pool, call.tx, call.now)]
    /\ UNCHANGED <<state, clock, market>>
    /\ UNCHANGED engine_vars
    /\ UNCHANGED node_vars

(***************************************************************************)
(* BlockValidator::apply_block (node/src/validator.rs).  Balance is u128:  *)
(* a value v below zero stands for 2^128 + v, the result of a subtraction  *)
(* that wrapped (the values of the model stay within a few units of 0 and  *)
(* of 2^128).  A subtraction below zero or an addition past 2^128 panics   *)
(* in a build with overflow checks and wraps in a build without.  S holds  *)
(* the balances and nonces, the subtractions made so far (the balance      *)
(* subtracted from and the amount), and how the call stands: "ok", "err"   *)
(* (it returned Err) or "panic".  The store accepts every write.           *)
(***************************************************************************)
U128Lt(a, b) == IF (a < 0) = (b < 0) THEN a < b ELSE b < 0

\* set_balance(address, balance - amount).
SubBalance(S, address, balance, amount, checks) ==
    LET debit == [address |-> address, balance |-> balance,
                  amount |-> amount]
    IN  IF S.status # "ok" THEN S
        ELSE IF U128Lt(balance, amount) /\ checks
        THEN [S EXCEPT !.status = "panic", !.debits = Append(@, debit)]
        ELSE [S EXCEPT !.balances[address] = balance - amount,
                       !.debits = Append(@, debit)]

\* set_balance(address, balance + amount).
AddBalance(S, address, balance, amount, checks) ==
    IF S.status # "ok" THEN S
    ELSE IF balance < 0 /\ balance + amount >= 0 /\ checks
    THEN [S EXCEPT !.status = "panic"]
    ELSE [S EXCEPT !.balances[address] = balance + amount]

\* The fee goes from the sender to the miner and the nonce of the sender is
\* incremented: the end of most arms.
FeeAndNonce(S, tx, miner, checks) ==
    LET S1 == SubBalance(S, tx.from, S.balances[tx.from], tx.fee, checks)
        S2 == AddBalance(S1, miner, S1.balances[miner], tx.fee, checks)
    IN  IF S2.status # "ok" THEN S2
        ELSE [S2 EXCEPT !.nonces[tx.from] = @ + 1]

\* The arm of one transaction of the loop of apply_block.
ApplyBlockTx(S, tx, miner, checks) ==
    LET sender_balance == S.balances[tx.from]
        Failed == [S EXCEPT !.status = "err"]
        \* the sender pays total_cost, the miner gets the fee
        Pay(total_cost) ==
            LET S1 == SubBalance(S, tx.from, sender_balance, total_cost,
                                 checks)
                S2 == AddBalance(S1, miner, S1.balances[miner], tx.fee,
                                 checks)
            IN  IF S2.status # "ok" THEN S2
                ELSE [S2 EXCEPT !.nonces[tx.from] = @ + 1]
    IN  IF S.status # "ok" THEN S
        ELSE IF tx.type = "Transfer"
        THEN IF U128Lt(sender_balance, tx.amount + tx.fee) THEN Failed
             ELSE IF tx.nonce # S.nonces[tx.from] THEN Failed
             ELSE \* AccountState::transfer: both balances written at once
                  LET S1 == SubBalance(S, tx.from, sender_balance, tx.amount,
                                       checks)
                      S2 == AddBalance(S1, tx.to, S.balances[tx.to],
                                       tx.amount, checks)
                  IN  IF S2.status = "panic"
                      THEN [S EXCEPT !.status = "panic",
                                     !.debits = S1.debits]
                      ELSE FeeAndNonce(S2, tx, miner, checks)
        ELSE IF tx.type = "TimeLock"
        THEN IF U128Lt(sender_balance, tx.amount + tx.fee) THEN Failed
             ELSE IF tx.nonce # S.nonces[tx.from] THEN Failed
             ELSE Pay(tx.amount + tx.fee)
        ELSE IF tx.type = "Escrow" /\ tx.escrow_type.kind = "Create"
        THEN IF U128Lt(sender_balance, tx.escrow_type.amount + tx.fee)
             THEN Failed
             ELSE IF tx.nonce # S.nonces[tx.from] THEN Failed
             ELSE Pay(tx.escrow_type.amount + tx.fee)
        ELSE IF tx.type = "Escrow"
        THEN IF U128Lt(sender_balance, tx.fee) THEN Failed
             ELSE IF tx.nonce # S.nonces[tx.from] THEN Failed
             ELSE Pay(tx.fee)
        ELSE \* Channel
             IF U128Lt(sender_balance, tx.fee) THEN Failed
             ELSE IF tx.nonce # S.nonces[tx.from] THEN Failed
             ELSE IF tx.channel_type.kind = "Open"
             THEN LET open == tx.channel_type
                      balance_a == S.balances[open.participant_a]
                      balance_b == S.balances[open.participant_b]
                  IN  IF U128Lt(balance_a, open.deposit_a) THEN Failed
                      ELSE IF U128Lt(balance_b, open.deposit_b) THEN Failed
                      ELSE FeeAndNonce(
                               SubBalance(
                                   SubBalance(S, open.participant_a,
                                              balance_a, open.deposit_a,
                                              checks),
                                   open.participant_b, balance_b,
                                   open.deposit_b, checks),
                               tx, miner, checks)
             ELSE FeeAndNonce(S, tx, miner, checks)

RECURSIVE ApplyBlockLoop(_, _, _, _)
ApplyBlockLoop(S, transactions, miner, checks) ==
    IF Len(transactions) = 0 THEN S
    ELSE ApplyBlockLoop(ApplyBlockTx(S, transactions[1], miner, checks),
                        Tail(transactions), miner, checks)

\* apply_block: the coinbase is credited to the miner, then the
\* transactions are executed in order up to the first that fails.
ApplyBlock(balances, nonces, miner, reward, transactions, checks) ==
    ApplyBlockLoop(
        AddBalance([balances |-> balances, nonces |-> nonces,
                    debits |-> <<>>, status |-> "ok"],
                   miner, balances[miner], reward, checks),
        transactions, miner, checks)

\* The inputs of apply_block: the balances before the block, a block
\* mined by M of up to MaxTxPerBlock transactions of A (every kind at
\* nonce 0, transfers at nonce 1 too), and the build.
ApplyBlockTxs ==
    {tx \in EngineTxs :
        tx.from = AddrA /\ (tx.nonce = 0 \/ tx.type = "Transfer")}

ApplyBlockCalls ==
    [fn : {"apply_block"},
     balances : [Addresses -> 0..MaxBalance],
     transactions : UNION {[1..n -> ApplyBlockTxs] : n \in 1..MaxTxPerBlock},
     overflow_checks : BOOLEAN, returned : {FALSE}]

\* apply_block runs and returns (or panics).
CallApplyBlock ==
    /\ call.fn = "apply_block" /\ ~call.returned
    /\ call' = [fn |-> call.fn, balances |-> call.balances,
                transactions |-> call.transactions,
                overflow_checks |-> call.overflow_checks, returned |-> TRUE,
                result |-> ApplyBlock(call.balances,
                                      [a \in Addresses |-> 0], AddrM,
                                      BlockReward, call.transactions,
                                      call.overflow_checks)]
    /\ UNCHANGED <<state, clock, market>>
    /\ UNCHANGED engine_vars
    /\ UNCHANGED node_vars

CoreCalls == VerifyCalls \cup CommitmentCalls \cup MerkleCalls
    \cup TimestampCalls \cup TransferCalls \cup PoolCalls
    \cup ApplyBlockCalls

\* The node is at rest in its initial state; one call of the library is
\* about to be made.
InitCore ==
    /\ state = GenesisState
    /\ clock = 0
    /\ blk = Idle
    /\ done = 0
    /\ pre_block = GenesisState
    /\ last = NoLast
    /\ chain = GenesisChain
    /\ block_buffer = {}
    /\ tx_pool = <<>>
    /\ handler = [pc |-> "idle"]
    /\ mining = [pc |-> "idle", mined |-> 0]
    /\ applied = <<>>
    /\ events = 0
    /\ broadcast = {}
    /\ validated = {}
    /\ call \in CoreCalls
    /\ market = EmptyMarket
    /\ sync = NoSync

NextCore ==
    \/ CallVerifySolution
    \/ CallVerifyCommitment
    \/ CallMerkle
    \/ CallValidateTimestamp
    \/ CallTransfer
    \/ CallPoolAdd
    \/ CallApplyBlock

SpecCore == InitCore /\ [][NextCore]_vars

(***************************************************************************)
(* The problem marketplace (mempool/src/marketplace.rs): the problems by   *)
(* id, the escrowed bounties by id, and the payments the calls have        *)
(* returned to their caller (claims and refunds), in order.                *)
(***************************************************************************)
\* Seconds per day in submit_problem.
DaySeconds == 86400

\* Bounds of the marketplace inputs.
MaxBounty == 2

MarketProblems == {GenerateProblem(1), GenerateProblem(2)}

MarketIds == {HashNew(p) : p \in MarketProblems}

\* The work scores a submitter may require: none, one the solutions reach,
\* one they do not reach.
MinWorkScores == {0, 50, 200}

\* Solution::quality of the solutions offered.
SolutionQuality == 1

MarketSolutions ==
    {[solves |-> p, quality |-> SolutionQuality] : p \in MarketProblems}

Restrict(f, S) == [x \in S |-> f[x]]

Put(f, k, v) == [x \in DOMAIN f \cup {k} |-> IF x = k THEN v ELSE f[x]]

\* submit_problem.
SubmitProblem(problem, submitter, bounty, min_work_score, expiration_days) ==
    /\ bounty # 0
    /\ min_work_score > 0
    /\ LET problem_id == HashNew(problem)
           submission ==
               [problem_id |-> problem_id, problem |-> problem,
                submitter |-> submitter, bounty |-> bounty,
                min_work_score |-> min_work_score, submitted_at |-> clock,
                expires_at |-> clock + expiration_days * DaySeconds,
                status |-> "Open", solver |-> NoAddress]
       IN  /\ problem_id \notin DOMAIN market.problems
           /\ market' = [market EXCEPT
                 !.escrow = Put(@, problem_id, bounty),
                 !.problems = Put(@, problem_id, submission)]
    /\ UNCHANGED <<state, clock, call>>
    /\ UNCHANGED engine_vars
    /\ UNCHANGED node_vars

\* submit_solution: an Open problem past its expiry is marked Expired and
\* the call fails; a verified solution of sufficient quality marks it Solved.
SubmitSolution(problem_id, solver, solution) ==
    /\ problem_id \in DOMAIN market.problems
    /\ LET problem == market.problems[problem_id]
       IN  /\ problem.status = "Open"
           /\ IF clock > problem.expires_at
              THEN market' = [market EXCEPT
                       !.problems[problem_id].status = "Expired"]
              ELSE /\ SolutionVerify(solution, problem.problem)
                   /\ solution.quality * 100 >= problem.min_work_score
                   /\ market' = [market EXCEPT
                         !.problems[problem_id].solver = solver,
                         !.problems[problem_id].status = "Solved"]
    /\ UNCHANGED <<state, clock, call>>
    /\ UNCHANGED engine_vars
    /\ UNCHANGED node_vars

\* claim_bounty: the bounty leaves the escrow and is returned with the solver.
ClaimBounty(problem_id) ==
    /\ problem_id \in DOMAIN market.problems
    /\ LET problem == market.problems[problem_id]
       IN  /\ problem.status = "Solved"
           /\ problem.solver # NoAddress
           /\ problem_id \in DOMAIN market.escrow
           /\ market' = [market EXCEPT
                 !.escrow = Restrict(@, DOMAIN @ \ {problem_id}),
                 !.payments = Append(@, [problem_id |-> problem_id,
                                         to |-> problem.solver,
                                         amount |-> market.escrow[problem_id]])]
    /\ UNCHANGED <<state, clock, call>>
    /\ UNCHANGED engine_vars
    /\ UNCHANGED node_vars

\* cancel_problem: the bounty leaves the escrow and is returned; the caller
\* is the submitter.
CancelProblem(problem_id, requester) ==
    /\ problem_id \in DOMAIN market.problems
    /\ LET problem == market.problems[problem_id]
       IN  /\ problem.submitter = requester
           /\ problem.status = "Open"
           /\ problem_id \in DOMAIN market.escrow
           /\ market' = [market EXCEPT
                 !.escrow = Restrict(@, DOMAIN @ \ {problem_id}),
                 !.problems[problem_id].status = "Cancelled",
                 !.payments = Append(@, [problem_id |-> problem_id,
                                         to |-> requester,
                                         amount |-> market.escrow[problem_id]])]
    /\ UNCHANGED <<state, clock, call>>
    /\ UNCHANGED engine_vars
    /\ UNCHANGED node_vars

\* expire_old_problems: every Open problem past its expiry whose bounty is
\* in the escrow is refunded to its submitter and marked Expired (the
\* refunds are listed in some iteration order of the map).
ExpireOldProblems ==
    /\ LET expired == {id \in DOMAIN market.problems :
                          /\ market.problems[id].status = "Open"
                          /\ clock > market.problems[id].expires_at
                          /\ id \in DOMAIN market.escrow}
           RECURSIVE Refunds(_)
           Refunds(ids) ==
               IF ids = {} THEN <<>>
               ELSE LET id == CHOOSE x \in ids : TRUE
                    IN  <<[problem_id |-> id,
                           to |-> market.problems[id].submitter,
                           amount |-> market.escrow[id]]>>
                        \o Refunds(ids \ {id})
       IN  market' =
              [escrow |-> Restrict(market.escrow,
                                   DOMAIN market.escrow \ expired),
               problems |->
                   [id \in DOMAIN market.problems |->
                       IF id \in expired
                       THEN [market.problems[id] EXCEPT !.status = "Expired"]
                       ELSE market.problems[id]],
               payments |-> market.payments \o Refunds(expired)]
    /\ UNCHANGED <<state, clock, call>>
    /\ UNCHANGED engine_vars
    /\ UNCHANGED node_vars

NextMarket ==
    \/ \E problem \in MarketProblems, submitter \in {AddrA, AddrB},
          bounty \in 0..MaxBounty, min_work_score \in MinWorkScores,
          expiration_days \in 0..1 :
          SubmitProblem(problem, submitter, bounty, min_work_score,
                        expiration_days)
    \/ \E problem_id \in MarketIds, solver \in {AddrB, AddrM},
          solution \in MarketSolutions :
          SubmitSolution(problem_id, solver, solution)
    \/ \E problem_id \in MarketIds : ClaimBounty(problem_id)
    \/ \E problem_id \in MarketIds, requester \in {AddrA, AddrB} :
          CancelProblem(problem_id, requester)
    \/ ExpireOldProblems
    \/ NodeTick

\* ProblemMarketplace::new beside a node at rest.
SpecMarket == Init /\ [][NextMarket]_vars

(***************************************************************************)
(* Properties of the state-transition engine.                              *)
(***************************************************************************)
RECURSIVE SumOver(_, _)
SumOver(f, S) ==
    IF S = {} THEN 0
    ELSE LET x == CHOOSE y \in S : TRUE
         IN  f[x] + SumOver(f, S \ {x})

\* The value a ledger holds: the balances, and the funds held by time-locks,
\* active escrows and channels that are not closed.
LockedValue(L) ==
    SumOver([t \in L.timelocks |-> t.amount], L.timelocks)
    + SumOver([e \in EscrowIds |->
                 IF GetEscrow(L, e).status = "Active"
                 THEN GetEscrow(L, e).amount ELSE 0], EscrowIds)
    + SumOver([c \in ChannelIds |->
                 IF GetChannel(L, c).status \in {"Open", "Disputed"}
                 THEN Capacity(GetChannel(L, c)) ELSE 0], ChannelIds)

TotalValue(L) == SumOver(L.balances, Addresses) + LockedValue(L)

\* C1: non-inflation.  When a block has been applied (no store write
\* failed), the value of the ledger after the block is at most its value
\* before the block plus the coinbase reward: the transactions of the block
\* create no value.  Funds held by time-locks, escrows and channels count
\* as value, so that locking and releasing funds is neutral.
NonInflation ==
    (blk.status = "ended" /\ ~blk.store_failed)
        => TotalValue(state) <= TotalValue(pre_block) + blk.reward

\* C3: nonce replay protection.  A transaction that the block application
\* applied carried the nonce its sender had at that point of the block.
NonceReplayProtection ==
    (last.valid /\ last.ok)
        => last.tx.nonce = GetNonce(last.pre, last.tx.from)

\* C4: block atomicity.  When the application of a block stopped partway
\* (it was aborted) or one of its store writes failed, no write made for the
\* block is visible: the stores are as they were when the block began.
BlockAtomicity ==
    (blk.status = "aborted" \/ (blk.status = "ended" /\ blk.store_failed))
        => state = pre_block

\* C5: per-transaction failure isolation.  A transaction that failed for a
\* reason of its own (every store write succeeded) left the stores as they
\* were before it.
FailureIsolation ==
    (last.valid /\ ~last.ok /\ last.fail_at = 0) => last.post = last.pre

(***************************************************************************)
(* Properties of the node.                                                 *)
(***************************************************************************)
\* The signature of tx is valid under the key whose digest is its sender.
Authentic(tx) ==
    /\ PublicKeyVerify(tx.public_key, SigningMessage(tx), tx.signature)
    /\ FromPubkey(tx.public_key) = tx.from

\* The block the event task holds has passed validate_block.
HandlerValidated == handler.pc \in {"store", "apply"}

\* C2: a transaction in the pool, or in a block that passed validation, is
\* signed under the key whose SHA-256 digest is its sender address.
SenderAuthenticated ==
    /\ \A i \in 1..Len(tx_pool) : Authentic(tx_pool[i].tx)
    /\ HandlerValidated =>
          \A i \in 1..Len(handler.block.transactions) :
              Authentic(handler.block.transactions[i])

\* C6: the blocks applied to the stores have strictly increasing heights,
\* and each one names as its parent the block applied just before it.
AppliedInOrder ==
    \A i \in 1..(Len(applied) - 1) :
        /\ applied[i + 1].block.header.height > applied[i].block.header.height
        /\ applied[i + 1].block.header.prev_hash = BlockHash(applied[i].block)

\* C7: while a task is between reading the tip and storing the block it
\* validated or mined on that tip, no other task has stored a block: the tip
\* the task read is still the tip of the chain.
TipSerialized ==
    /\ handler.pc = "store" => handler.best_hash = chain.best_hash
    /\ mining.pc = "store" => mining.best_hash = chain.best_hash

\* C8: every applied block credited its miner with the reward the policy
\* gives for the work score of the block.
CoinbasePerPolicy ==
    \A i \in 1..Len(applied) :
        applied[i].credited =
            CalculateReward(applied[i].block.header.work_score)

\* The hashes a block can name as its parent.
ParentHashes ==
    {HashZero, GenesisHash} \cup {BlockHash(b) : b \in chain.blocks}

\* C9: the commitment of a block that passed validation is not the
\* commitment the miner computes for any other (parent, height) tuple.
AntiGrinding ==
    HandlerValidated =>
        \A q \in ParentHashes, h \in 0..MaxHeight :
            <<q, h>> # <<handler.block.header.prev_hash,
                         handler.block.header.height>>
            => handler.block.solution_reveal.commitment
                 # MineBlock(q, h, <<>>, AddrM, 0).solution_reveal.commitment

\* C10: the header of a block that passed validation records the Merkle
\* root of the transactions the block carries (as the miner computes it from
\* the transactions, or as Block::verify computes it from their hashes).
MerkleRootChecked ==
    HandlerValidated =>
        handler.block.header.transactions_root
            \in {MinerMerkleRoot(handler.block.transactions),
                 VerifyMerkleRoot(handler.block.transactions)}


\* C11: every block the node has broadcast, mined by it or served to a block
\* request, is a block validate_block has accepted on this node.
BroadcastValidated == \A b \in broadcast : b \in validated


\* The empty block of height 2 peers build on their empty block of height 1.
PeerBlock1 == MineBlock(GenesisHash, 1, <<>>, AddrM, 0)

PeerBlock2 == MineBlock(BlockHash(PeerBlock1), 2, <<>>, AddrM, 0)

WasApplied(b) == \E i \in 1..Len(applied) : applied[i].block = b

\* The block is held in the buffer, the chain has reached the height below
\* it, and validate_block accepts it on the tip.
ReadyBuffered(b) ==
    /\ b \in block_buffer
    /\ chain.best_height = b.header.height - 1
    /\ ValidateBlock(b, chain.best_hash, b.header.height, clock) = "ok"

\* C12: whenever the chain has reached height h-1 and a block of height h
\* that is valid on the tip is held in the buffer, that block is eventually
\* applied.
BufferedReleased == ReadyBuffered(PeerBlock2) ~> WasApplied(PeerBlock2)


(***************************************************************************)
(* Properties of apply_single_transaction, one transaction at a time.      *)
(***************************************************************************)
\* C13: a transaction that was applied leaves the nonce of its sender at
\* the value it had before plus one.
NonceMonotonicity ==
    (last.valid /\ last.ok) =>
        GetNonce(last.post, last.tx.from)
            = GetNonce(last.pre, last.tx.from) + 1


\* The balances a transfer is to leave: the sender debited amount + fee, the
\* recipient credited amount, the miner of the block credited fee.
TransferBalances(L, tx, miner) ==
    LET b1 == [L.balances EXCEPT ![tx.from] = @ - tx.amount - tx.fee]
        b2 == [b1 EXCEPT ![tx.to] = @ + tx.amount]
    IN  [b2 EXCEPT ![miner] = @ + tx.fee]

\* C14: an applied Transfer debits the sender amount + fee, credits the
\* recipient amount, credits the miner of the block fee, and raises the
\* nonce of the sender by one.
TransferEffect ==
    (last.valid /\ last.ok /\ last.tx.type = "Transfer"
     /\ blk.status \in {"applying", "ended", "aborted"}) =>
        /\ last.post.balances = TransferBalances(last.pre, last.tx, blk.miner)
        /\ GetNonce(last.post, last.tx.from)
              = GetNonce(last.pre, last.tx.from) + 1


\* The transaction processed last was of this kind of channel operation and
\* no store write failed.
LastChannelOp(kind) ==
    /\ last.valid /\ last.fail_at = 0
    /\ last.tx.type = "Channel" /\ last.tx.channel_type.kind = kind

\* C15: a CooperativeClose whose final balances do not add up to the
\* capacity of the channel credits nobody and leaves the channel as it was;
\* one whose balances add up to the capacity of an open channel credits each
\* participant its final balance and leaves the channel ClosedCooperative.
CooperativeCloseEffect ==
    (LastChannelOp("CooperativeClose")
     /\ ChannelExists(last.pre, last.tx.channel_id)) =>
        LET close == last.tx.channel_type
            channel == GetChannel(last.pre, last.tx.channel_id)
            b1 == [last.pre.balances EXCEPT
                      ![channel.participant_a] = @ + close.final_balance_a]
            b2 == [b1 EXCEPT
                      ![channel.participant_b] = @ + close.final_balance_b]
        IN  IF close.final_balance_a + close.final_balance_b
                  # Capacity(channel)
            THEN /\ last.post.balances = last.pre.balances
                 /\ last.post.channels = last.pre.channels
            ELSE channel.status = "Open" =>
                    /\ last.post.balances = b2
                    /\ GetChannel(last.post, last.tx.channel_id).status
                          = "ClosedCooperative"


\* C16: a UnilateralClose is accepted only for an open channel and only
\* with a sequence number at or above the one the channel holds, and an
\* accepted one leaves the channel InDispute.
UnilateralCloseAccepted ==
    (LastChannelOp("UnilateralClose") /\ last.ok) =>
        LET channel == GetChannel(last.pre, last.tx.channel_id)
        IN  /\ channel.status = "Open"
            /\ last.tx.channel_type.sequence >= channel.sequence
            /\ GetChannel(last.post, last.tx.channel_id).status = "InDispute"


\* The transaction processed last was of this kind of escrow operation.
LastEscrowOp(kind) ==
    last.valid /\ last.tx.type = "Escrow" /\ last.tx.escrow_type.kind = kind

\* C17: a Release that succeeds was sent by the recipient or the arbiter of
\* an Active escrow, credits the recipient the amount of the escrow and
\* nothing else, and leaves the escrow Released with its resolution height
\* set; a Release that is refused changes no balance and no escrow record
\* (no store write failing).
ReleaseEffect ==
    LastEscrowOp("Release") =>
        LET escrow == GetEscrow(last.pre, last.tx.escrow_id)
            after == GetEscrow(last.post, last.tx.escrow_id)
        IN  /\ last.ok =>
                /\ escrow.status = "Active"
                /\ last.tx.from \in {escrow.recipient, escrow.arbiter}
                /\ last.post.balances =
                      [last.pre.balances EXCEPT
                          ![escrow.recipient] = @ + escrow.amount]
                /\ after.resolved_at_height # None
                /\ after = [escrow EXCEPT
                              !.status = "Released",
                              !.resolved_at_height = after.resolved_at_height]
            /\ (~last.ok /\ last.fail_at = 0) =>
                /\ last.post.balances = last.pre.balances
                /\ last.post.escrows = last.pre.escrows

\* An escrow with an arbiter was released by its arbiter.
ReleasedByArbiter ==
    /\ LastEscrowOp("Release") /\ last.ok
    /\ last.tx.from = GetEscrow(last.pre, last.tx.escrow_id).arbiter
    /\ last.tx.from # GetEscrow(last.pre, last.tx.escrow_id).recipient


\* C18: a Refund that succeeds was sent by the arbiter of an Active escrow,
\* or by its sender with the clock at or past the timeout of the escrow; it
\* credits the sender the amount of the escrow and leaves the escrow
\* Refunded.  (The clock never goes back, so a timeout passed when the
\* transaction was processed is passed in every later state.)
RefundEffect ==
    (LastEscrowOp("Refund") /\ last.ok) =>
        LET escrow == GetEscrow(last.pre, last.tx.escrow_id)
        IN  /\ escrow.status = "Active"
            /\ \/ last.tx.from = escrow.arbiter
               \/ last.tx.from = escrow.sender /\ escrow.timeout <= clock
            /\ last.post.balances =
                  [last.pre.balances EXCEPT
                      ![escrow.sender] = @ + escrow.amount]
            /\ GetEscrow(last.post, last.tx.escrow_id).status = "Refunded"

\* An escrow was refunded to its sender, at the sender's request, once its
\* timeout had passed.
RefundedBySender ==
    /\ LastEscrowOp("Refund") /\ last.ok
    /\ last.tx.from = GetEscrow(last.pre, last.tx.escrow_id).sender
    /\ GetEscrow(last.pre, last.tx.escrow_id).timeout > 0


\* C19: a Channel Update is applied only to an open channel, with a sequence
\* number above the one the channel holds and balances that add up to its
\* capacity; it then overwrites the sequence number and the balances of the
\* channel and nothing else of it, and an Update that is not applied leaves
\* the channel records as they were.
UpdateEffect ==
    (last.valid /\ last.tx.type = "Channel"
     /\ last.tx.channel_type.kind = "Update") =>
        LET update == last.tx.channel_type
            channel == GetChannel(last.pre, last.tx.channel_id)
        IN  IF last.ok
            THEN /\ channel.status = "Open"
                 /\ update.sequence > channel.sequence
                 /\ update.balance_a + update.balance_b = Capacity(channel)
                 /\ GetChannel(last.post, last.tx.channel_id) =
                       [channel EXCEPT !.sequence = update.sequence,
                                       !.balance_a = update.balance_a,
                                       !.balance_b = update.balance_b]
            ELSE last.post.channels = last.pre.channels

\* An Update was applied to a channel that had been updated before.
UpdatedTwice ==
    /\ last.valid /\ last.ok /\ last.tx.type = "Channel"
    /\ last.tx.channel_type.kind = "Update"
    /\ GetChannel(last.pre, last.tx.channel_id).sequence > 0


(***************************************************************************)
(* Properties of the pool.                                                 *)
(***************************************************************************)
\* The hashes of the transactions of a list that apply_single_transaction
\* accepts when they are processed in order from ledger L.
RECURSIVE AppliedHashes(_, _, _, _)
AppliedHashes(L, transactions, block_height, now) ==
    IF Len(transactions) = 0 THEN {}
    ELSE LET r == ApplySingleTransaction(L, transactions[1], block_height,
                                         now, 0)
         IN  (IF r.ok THEN {TxHash(transactions[1])} ELSE {})
             \cup AppliedHashes(r.L, Tail(transactions), block_height, now)

\* C20: the step that applies a block, whether received, released from the
\* buffer or mined, takes out of the pool the transactions of the block
\* that were applied and no other: a transaction of the block that was
\* skipped stays in the pool.
PoolAfterBlock ==
    [][Len(applied') > Len(applied) =>
        LET block == applied'[Len(applied')].block
            hashes == AppliedHashes(CreditCoinbase(state, block),
                                    block.transactions,
                                    block.header.height, clock)
        IN  tx_pool' = SelectSeq(tx_pool,
                                 LAMBDA p : TxHash(p.tx) \notin hashes)]_vars

\* The block applied last held a transaction that was skipped, and the
\* transaction is in the pool.
SkippedStaysPooled ==
    /\ Len(applied) > 0
    /\ LET e == applied[Len(applied)]
       IN  \E i \in 1..Len(e.block.transactions) :
              /\ \A j \in 1..Len(e.applied_txs) :
                    e.applied_txs[j] # TxHash(e.block.transactions[i])
              /\ PoolContains(tx_pool, TxHash(e.block.transactions[i]))

\* A transaction whose nonce is below the stored nonce of its sender.
StaleNonce(tx, L) == tx.nonce < GetNonce(L, tx.from)

\* The positions of the transactions of a logged block that were skipped.
SkippedOf(e) ==
    {i \in 1..Len(e.block.transactions) :
        \A j \in 1..Len(e.applied_txs) :
            e.applied_txs[j] # TxHash(e.block.transactions[i])}

\* C21: when a block has been applied, a transaction of the block that was
\* skipped and whose nonce is stale is no longer in the pool.
StaleSkippedDropped ==
    [][Len(applied') > Len(applied) =>
        LET e == applied'[Len(applied')]
        IN  \A i \in SkippedOf(e) :
               StaleNonce(e.block.transactions[i], state')
                  => ~PoolContains(tx_pool',
                                   TxHash(e.block.transactions[i]))]_vars


(***************************************************************************)
(* Properties of the consensus core library.                               *)
(***************************************************************************)
\* A call of verify_solution on a subset-sum problem has returned.
VerifyReturned ==
    /\ call.fn = "verify_solution" /\ call.returned
    /\ call.problem.problem_type = "SubsetSum"

\* The error a call returned, "None" when it returned Ok.
ErrorOf(result) == IF result.ok THEN "None" ELSE result.err

\* The errors that report an exhausted VerifyBudget.
BudgetErrors ==
    {"BudgetOpsExceeded", "BudgetTimeExceeded", "TierMemoryLimitExceeded"}

InRange(problem, solution) ==
    \A i \in 1..Len(solution.indices) :
        solution.indices[i] < Len(problem.elements)

Distinct(solution) ==
    \A i, j \in 1..Len(solution.indices) :
        i # j => solution.indices[i] # solution.indices[j]

\* The sum, as a mathematical integer, of the elements the first k indices
\* select.
RECURSIVE SelectedSum(_, _, _)
SelectedSum(problem, solution, k) ==
    IF k = 0 THEN I64(0, 0)
    ELSE I64Plus(SelectedSum(problem, solution, k - 1),
                 problem.elements[solution.indices[k] + 1])

\* The solution is what the problem asks for.
Solves(problem, solution) ==
    /\ InRange(problem, solution)
    /\ Distinct(solution)
    /\ SelectedSum(problem, solution, Len(solution.indices)) = problem.target

\* The sum of the elements selected so far leaves the range of i64 at some
\* position among the first n of the solution.
RunningSumOverflows(problem, solution, n) ==
    \E k \in 1..n :
        LET s == SelectedSum(problem, solution, k)
        IN  ~(I64Leq(I64Min, s) /\ I64Leq(s, I64Max))

OpsCountedPerIndex ==
    (VerifyReturned /\ Len(call.solution.indices) <= call.budget.max_ops)
        => ErrorOf(call.result) # "BudgetOpsExceeded"


FirstOutOfRange(problem, solution) ==
    CHOOSE i \in 1..Len(solution.indices) :
        /\ solution.indices[i] >= Len(problem.elements)
        /\ \A j \in 1..(i - 1) : solution.indices[j] < Len(problem.elements)

\* The checks that come before the two loops pass, and the budget covers
\* both loops: the number of elements is in the range of the tier, the
\* solution is no longer than the list of elements and max_ops is at least
\* twice the length of the solution.
LoopsRun ==
    /\ VerifyReturned
    /\ Len(call.problem.elements) >= ElementRange(call.problem.tier)[1]
    /\ Len(call.problem.elements) <= ElementRange(call.problem.tier)[2]
    /\ Len(call.solution.indices) <= Len(call.problem.elements)
    /\ call.budget.max_ops >= 2 * Len(call.solution.indices)

CommitmentReturned == call.fn = "verify_commitment" /\ call.returned

\* The reveal and the place it is verified at agree with the commitment in
\* problem hash, solution hash and epoch salt.
RevealMatches ==
    /\ ComputeHashMsgpack(call.reveal.problem) = call.commitment.problem_hash
    /\ ComputeHashMsgpack(call.reveal.solution)
          = call.commitment.solution_hash
    /\ ComputeEpochSalt(call.parent_hash, call.block_index)
          = call.commitment.epoch_salt

\* Verifying at the parent the commitment was created for, but at another
\* height, fails with EpochBindingFailed.
OtherHeightFails ==
    (/\ call.parent_hash = call.create.parent_hash
     /\ call.block_index # call.create.block_index)
        => ErrorOf(call.result) = "EpochBindingFailed"

\* C23 as stated: the commitment verifies exactly when the reveal matches
\* it in problem hash, solution hash and epoch salt, and it fails with
\* EpochBindingFailed at the same parent and another height.
CommitRevealBinding ==
    CommitmentReturned =>
        /\ call.result.ok <=> RevealMatches
        /\ OtherHeightFails

\* C23, amended: the same with a fourth condition, the miner salt of the
\* reveal is the one of the commitment.
CommitRevealBindingWithSalt ==
    CommitmentReturned =>
        /\ call.result.ok
              <=> (/\ RevealMatches
                   /\ call.reveal.miner_salt = call.commitment.miner_salt)
        /\ OtherHeightFails

\* A commitment was verified at its own parent and at another height, and
\* was refused with EpochBindingFailed.
RefusedAtOtherHeight ==
    /\ CommitmentReturned
    /\ call.parent_hash = call.create.parent_hash
    /\ call.block_index # call.create.block_index
    /\ call.reveal = [problem |-> call.create.problem,
                      solution |-> call.create.solution,
                      miner_salt |-> call.create.miner_salt, nonce |-> 0]
    /\ ErrorOf(call.result) = "EpochBindingFailed"


\* The Merkle functions have run on a list and an index inside it.
MerkleReturned ==
    /\ call.fn = "merkle" /\ call.returned
    /\ call.tx_index < Len(call.leaves)

\* C24 as stated: the leaf at the index verifies with the proof generated
\* for the index against the root of the list, and with that same proof
\* the leaf at any other index, and any value that is not the leaf at the
\* index, fail with MerkleRootMismatch.
MerkleSoundness ==
    MerkleReturned =>
        /\ call.tx_hash = call.leaves[call.tx_index + 1] => call.result.ok
        /\ (\/ \E j \in 1..Len(call.leaves) :
                  j # call.tx_index + 1 /\ call.tx_hash = call.leaves[j]
            \/ call.tx_hash # call.leaves[call.tx_index + 1])
              => ErrorOf(call.result) = "MerkleRootMismatch"

\* C24, amended: the leaf at the index verifies, and every value other
\* than the value of that leaf fails with MerkleRootMismatch; a leaf at
\* another index fails when its value differs.
MerkleSoundnessByValue ==
    MerkleReturned =>
        /\ call.tx_hash = call.leaves[call.tx_index + 1] => call.result.ok
        /\ call.tx_hash # call.leaves[call.tx_index + 1]
              => ErrorOf(call.result) = "MerkleRootMismatch"

\* The last of three leaves, which has no sibling at the first level, was
\* verified with its proof, and so was refused another leaf of the list.
UnpairedLeafVerified ==
    /\ MerkleReturned
    /\ Len(call.leaves) = 3 /\ call.tx_index = 2
    /\ call.tx_hash = call.leaves[3]
    /\ call.leaves[1] # call.leaves[3]
    /\ call.result.ok


\* C25: the root compute_merkle_root gives a list of leaves is the root the
\* MerkleTree of the node gives the same leaves: in both a node without a
\* partner goes up to the next level unchanged.
MerkleRootsAgree ==
    (call.fn = "merkle" /\ call.returned) => call.root = call.node_root


(***************************************************************************)
(* Properties of validate_timestamp and AccountState::transfer.            *)
(***************************************************************************)
TimestampReturned == call.fn = "validate_timestamp" /\ call.returned

TransferConserves ==
    (call.fn = "transfer" /\ call.returned) =>
        LET pre == call.L.balances
            post == call.result.L.balances
        IN  /\ SumOver(post, Addresses) = SumOver(pre, Addresses)
            /\ IF call.result.ok
               THEN /\ call.from # call.to =>
                         /\ post[call.from] = pre[call.from] - call.amount
                         /\ post[call.to] = pre[call.to] + call.amount
                    /\ \A a \in Addresses \ {call.from, call.to} :
                          post[a] = pre[a]
               ELSE post = pre


(***************************************************************************)
(* Properties of the payment channels over their lifetime.                 *)
(***************************************************************************)
\* C30: what a channel transaction adds to the balances of the accounts is
\* at most what the channel holds: the capacity of the channel, the sum of
\* the deposits made when it was opened, while the channel is open, and
\* nothing once the channel has paid out and is closed.
ChannelPaysOnce ==
    (/\ last.valid /\ last.tx.type = "Channel"
     /\ ChannelExists(last.pre, last.tx.channel_id)) =>
        LET channel == GetChannel(last.pre, last.tx.channel_id)
            credited == SumOver(last.post.balances, Addresses)
                        - SumOver(last.pre.balances, Addresses)
        IN  credited <= (IF channel.status = "ClosedCooperative"
                         THEN 0 ELSE Capacity(channel))


(***************************************************************************)
(* Properties of the channels and escrows against their parties.           *)
(***************************************************************************)
\* C31: an Update, CooperativeClose or UnilateralClose whose sender is
\* neither participant of the channel leaves the channel record and every
\* balance as they were.
OnlyParticipantsChange ==
    (/\ last.valid /\ last.tx.type = "Channel"
     /\ last.tx.channel_type.kind
           \in {"Update", "CooperativeClose", "UnilateralClose"}
     /\ ChannelExists(last.pre, last.tx.channel_id)
     /\ LET channel == GetChannel(last.pre, last.tx.channel_id)
        IN  last.tx.from \notin {channel.participant_a,
                                 channel.participant_b})
        => /\ last.post.channels = last.pre.channels
           /\ last.post.balances = last.pre.balances


\* The statuses of an escrow that has been settled.
Settled == {"Released", "Refunded", "Expired"}

\* C32: once an escrow has left the Active state its record never changes
\* again, and a Release or Refund processed after that changes no balance.
EscrowSettledOnce ==
    [][/\ \A e \in EscrowIds :
             GetEscrow(state, e).status \in Settled
                => GetEscrow(state', e) = GetEscrow(state, e)
       /\ (/\ last' # last
           /\ last'.tx.type = "Escrow"
           /\ last'.tx.escrow_type.kind \in {"Release", "Refund"}
           /\ GetEscrow(last'.pre, last'.tx.escrow_id).status \in Settled)
             => last'.post.balances = last'.pre.balances]_vars

\* A Refund by the arbiter was processed on an escrow already released,
\* and was refused.
RefundAfterRelease ==
    /\ last.valid /\ ~last.ok
    /\ last.tx.type = "Escrow" /\ last.tx.escrow_type.kind = "Refund"
    /\ GetEscrow(last.pre, last.tx.escrow_id).status = "Released"
    /\ last.tx.from = GetEscrow(last.pre, last.tx.escrow_id).arbiter


(* Properties of the chain store. *)
\* C33: best_height never decreases, the block indexed at best_height is the
\* block whose hash is best_hash, and the block indexed at a height up to
\* best_height is never replaced by a block stored later for that height.
ChainStoreConsistent ==
    [][/\ chain'.best_height >= chain.best_height
       /\ <<chain'.best_height, chain'.best_hash>> \in chain'.height_index
       /\ \A e \in chain.height_index :
             e[1] <= chain.best_height => e \in chain'.height_index]_vars


(* Properties of the commitment rule across miner and validators. *)
\* BlockHeader::epoch_salt: the hash of the parent block.
HeaderEpochSalt(header) == header.prev_hash

\* Step 1 of Block::verify: the solution reveal matches its commitment under
\* the epoch salt of the header.
BlockVerifyReveal(block) ==
    CommitmentVerify(block.solution_reveal.commitment,
                     block.solution_reveal.problem,
                     block.solution_reveal.solution,
                     HeaderEpochSalt(block.header))

\* C34: the block the miner has produced on the tip passes the
\* commitment-reveal check of validate_block at that tip and the one of
\* Block::verify.
CommitmentRuleAgreed ==
    mining.pc = "store" =>
        /\ ValidateBlock(mining.block, mining.best_hash,
                         mining.block.header.height, clock)
             # "InvalidCommitment"
        /\ BlockVerifyReveal(mining.block)


(* Properties of the transaction pool. *)
AddReturned == call.fn = "add" /\ call.returned

\* The least fee among the pooled transactions.
LowestFee(pool) ==
    CHOOSE f \in {TxFee(pool[i].tx) : i \in 1..Len(pool)} :
        \A i \in 1..Len(pool) : f <= TxFee(pool[i].tx)

\* C35: on a full pool a new, signed transaction with a sufficient fee is
\* admitted exactly when its fee is higher than the lowest fee in the pool,
\* and then a transaction with that lowest fee is the one evicted; otherwise
\* add fails with PoolFull and the pool is unchanged.
FullPoolAdmission ==
    (/\ AddReturned
     /\ Len(call.pool) >= MaxTransactions
     /\ ~PoolContains(call.pool, TxHash(call.tx))
     /\ TxFee(call.tx) >= MinFee
     /\ VerifySignature(call.tx))
      => IF TxFee(call.tx) > LowestFee(call.pool)
         THEN /\ call.result.result = "ok"
              /\ \E i \in 1..Len(call.pool) :
                    /\ TxFee(call.pool[i].tx) = LowestFee(call.pool)
                    /\ call.result.pool
                         = Append(RemoveAt(call.pool, i),
                                  [tx |-> call.tx, received_at |-> call.now])
         ELSE /\ call.result.result = "PoolFull"
              /\ call.result.pool = call.pool


(* Properties of the problem marketplace. *)
PaymentsOf(problem_id) ==
    SelectSeq(market.payments, LAMBDA p : p.problem_id = problem_id)

\* C36: a bounty leaves the escrow at most once; the escrow holds the bounty
\* of a problem exactly when the problem is Open or Solved and not yet
\* claimed; the bounty of an Expired or Cancelled problem has been returned to
\* its submitter.
BountyEscrowedOnce ==
    \A id \in DOMAIN market.problems :
        LET problem == market.problems[id]
        IN  /\ Len(PaymentsOf(id)) <= 1
            /\ id \in DOMAIN market.escrow
                 <=> \/ problem.status = "Open"
                     \/ problem.status = "Solved" /\ PaymentsOf(id) = <<>>
            /\ problem.status \in {"Expired", "Cancelled"}
                 => PaymentsOf(id)
                      = <<[problem_id |-> id, to |-> problem.submitter,
                           amount |-> problem.bounty]>>


(* Properties of the mining loop. *)
\* apply_single_transaction would apply the transaction to the stores as
\* they are.
Applicable(tx) ==
    ApplySingleTransaction(state, tx, chain.best_height + 1, clock, 0).ok

MinedAndApplied(tx) ==
    \E i \in 1..Len(applied) :
        /\ applied[i].by = "miner"
        /\ \E k \in 1..Len(applied[i].applied_txs) :
              applied[i].applied_txs[k] = TxHash(tx)

SyncReaches ==
    \A h \in 1..MaxHeight :
        (sync.peer_height = h /\ chain.best_height < h)
            ~> (chain.best_height >= h \/ events = MaxEvents)


(* Properties of the balance arithmetic of apply_block. *)
\* C39: every subtraction apply_block makes from a balance is covered by
\* the balance it is made from, and the call does not panic.
DebitsCovered ==
    (call.fn = "apply_block" /\ call.returned) =>
        /\ call.result.status # "panic"
        /\ \A i \in 1..Len(call.result.debits) :
              ~U128Lt(call.result.debits[i].balance,
                      call.result.debits[i].amount)

=============================================================================
